---- MODULE Spec2Model ----
(***************************************************************************)
(* Verification model of the FlagKit Go SDK resilience substrate:          *)
(*   - the event write-ahead log (internal/persistence, EventPersistence)  *)
(*   - the in-memory event queue and its integration with the log          *)
(*   - the circuit breaker of the request pipeline                         *)
(* Each component has its own specification over the shared variables.     *)
(***************************************************************************)
EXTENDS Integers, Sequences, FiniteSets, TLC

(***************************************************************************)
(* Bounds of the model                                                     *)
(***************************************************************************)
MaxEvents == 1      \* distinct event ids
MaxLines == 2       \* records on disk plus records buffered (log model)
MaxMs == 2          \* largest reading of the millisecond clock
BufferSize == 2     \* EventPersistence.bufferSize (100 in the code), scaled
MaxSize == 1        \* EventQueueConfig.MaxSize (default 1000), scaled
BatchSize == 1      \* EventQueueConfig.BatchSize (default 10), scaled
MaxThreshold == 2   \* largest FailureThreshold / SuccessThreshold of a breaker
MaxResetTimeout == 1 \* largest ResetTimeout, in clock ticks
MaxHalfOpen == 1    \* largest HalfOpenMaxAllowed
MaxClock == 2       \* largest reading of the breaker's clock
MaxAttempts == 2    \* RetryConfig.MaxAttempts (default 3), scaled
MaxCallers == 3     \* calls in flight between Allow and their report
CacheMaxSize == 1   \* largest CacheConfig.MaxSize (the client uses 1000), scaled
MaxTtl == 1         \* largest TTL of a cache entry, in clock ticks
MaxCacheClock == 2  \* largest reading of the cache's clock
MaxPollInterval == 5 \* largest Interval / MaxInterval of a polling manager, in units of 100 ms
MaxErrors == 6      \* largest count of consecutive OnError calls followed
MaxStarts == 2      \* polling workers launched by Start
MaxQueue == 2       \* largest EventQueueConfig.MaxSize / BatchSize (defaults 1000 / 10), scaled
MaxNano == 2        \* largest reading of the event queue's clock
MaxIssued == 2      \* events stamped by one process
MaxOld == 1         \* events a previous process left pending
MaxStamp == 2       \* largest Timestamp of a bootstrap, in units of MaxAge
MaxRetryDelay == 2  \* largest BaseDelay, MaxDelay and Jitter of a RetryConfig
MaxConns == 3       \* connection goroutines a streaming manager starts
MaxReconnect == 2   \* StreamingConfig.MaxReconnectAttempts (default 3), scaled

EventIds == 1..MaxEvents

(***************************************************************************)
(* EventStatus (persistence package)                                       *)
(***************************************************************************)
EventStatusPending == "pending"
EventStatusSending == "sending"
EventStatusSent == "sent"
EventStatusFailed == "failed"

\* Field names of PersistedEvent in their JSON spelling; the zero value of
\* each field: "" / 0 / nil are written "" and 0.
EventFields == {"id", "type", "data", "context", "timestamp", "status", "sentAt"}

ZeroOf(f) == IF f \in {"type", "status"} THEN "" ELSE 0

\* A PersistedEvent struct value.
PersistedEvent(id, type, data, context, timestamp, status, sentAt) ==
    [id |-> id, type |-> type, data |-> data, context |-> context,
     timestamp |-> timestamp, status |-> status, sentAt |-> sentAt]

(***************************************************************************)
(* JSON lines.  A line is the JSON object itself: a function from the      *)
(* keys that are present to their values.  json.Marshal of a               *)
(* PersistedEvent omits data, context and sentAt when empty (omitempty);   *)
(* a status update carries id, status and (for sent) sentAt only.          *)
(***************************************************************************)
MarshalEvent(e) ==
    LET present == {f \in EventFields :
                       f \in {"data", "context", "sentAt"} => e[f] # ZeroOf(f)}
    IN [f \in present |-> e[f]]

MarshalUpdate(id, status, sentAt) ==
    IF status = EventStatusSent
    THEN [id |-> id, status |-> status, sentAt |-> sentAt]
    ELSE [id |-> id, status |-> status]

\* A line cut short by a crash in the middle of an append.
TornLine == [torn |-> TRUE]

\* json.Unmarshal(line, &event): fails only on malformed JSON; keys that are
\* absent leave the struct field at its zero value.
UnmarshalOk(line) == "torn" \notin DOMAIN line

UnmarshalEvent(line) ==
    [f \in EventFields |-> IF f \in DOMAIN line THEN line[f] ELSE ZeroOf(f)]

(***************************************************************************)
(* File names: flagkit-events-<ms>-<random>.jsonl.  A name is modelled by  *)
(* its millisecond stamp; comparing stamps is comparing the names as       *)
(* filepath.Glob sorts them (equal digit counts).  The random suffix only  *)
(* separates names generated within one millisecond; in this model that    *)
(* happens in Cleanup alone, which has removed every older file before it  *)
(* creates the new one.                                                    *)
(***************************************************************************)
generateFileName(ms) == ms

RECURSIVE SortedSeq(_)
SortedSeq(S) ==
    IF S = {} THEN <<>>
    ELSE LET m == CHOOSE x \in S : \A y \in S : x <= y
         IN <<m>> \o SortedSeq(S \ {m})

\* filepath.Glob over the storage directory: existing event files, sorted.
Glob(fs) == SortedSeq(DOMAIN fs)

MapPut(m, k, v) == [x \in (DOMAIN m) \cup {k} |-> IF x = k THEN v ELSE m[x]]

(***************************************************************************)
(* readEventsFromFile: replay the lines of one file into eventMap.         *)
(***************************************************************************)
ReadLine(line, eventMap) ==
    IF ~UnmarshalOk(line)
    THEN \* the status-update parse fails on the same malformed line
         eventMap
    ELSE LET event == UnmarshalEvent(line)
         IN IF event.id # 0 THEN MapPut(eventMap, event.id, event)
                            ELSE eventMap

RECURSIVE readEventsFromFile(_, _)
readEventsFromFile(lines, eventMap) ==
    IF lines = <<>> THEN eventMap
    ELSE readEventsFromFile(Tail(lines), ReadLine(Head(lines), eventMap))

RECURSIVE ReadFiles(_, _, _)
ReadFiles(names, fs, eventMap) ==
    IF names = <<>> THEN eventMap
    ELSE ReadFiles(Tail(names), fs, readEventsFromFile(fs[Head(names)], eventMap))

EmptyMap == [x \in {} |-> 0]

\* The id -> event map built by Recover and Cleanup from the directory.
ReplayMap(fs) == ReadFiles(Glob(fs), fs, EmptyMap)

IsLive(event) == event.status = EventStatusPending \/ event.status = EventStatusSending

\* Recover with the crash case forgotten: only pending events are returned.
RecoverPendingOnly(fs) ==
    LET eventMap == ReplayMap(fs)
    IN {eventMap[id] : id \in {i \in DOMAIN eventMap :
                                  eventMap[i].status = EventStatusPending}}

\* Recover: the live events, each with its status reset to pending.  The
\* result is built by ranging over a Go map, so its order is unspecified:
\* it is kept as a set.
Recover(fs) ==
    LET eventMap == ReplayMap(fs)
    IN {[eventMap[id] EXCEPT !.status = EventStatusPending] :
            id \in {i \in DOMAIN eventMap : IsLive(eventMap[i])}}

\* Cleanup that compacts away the events caught in mid-send.
CleanupKeepPendingOnly(fs) ==
    LET eventMap == ReplayMap(fs)
    IN {eventMap[id] : id \in {i \in DOMAIN eventMap :
                                  eventMap[i].status = EventStatusPending}}

\* Cleanup keeps the live events with the status they have.
CleanupKeep(fs) ==
    LET eventMap == ReplayMap(fs)
    IN {eventMap[id] : id \in {i \in DOMAIN eventMap : IsLive(eventMap[i])}}

IdsOf(evs) == {e.id : e \in evs}

RECURSIVE SetToSeq(_)
SetToSeq(S) ==
    IF S = {} THEN <<>>
    ELSE LET x == CHOOSE y \in S : TRUE IN <<x>> \o SetToSeq(S \ {x})

\* All orders in which the elements of a set can be listed.
Perms(S) ==
    {s \in [1..Cardinality(S) -> S] : \A i, j \in 1..Cardinality(S) : s[i] = s[j] => i = j}

\* Append lines to a file opened with O_CREATE|O_APPEND.
AppendTo(fs, name, lines) ==
    IF name \in DOMAIN fs THEN [fs EXCEPT ![name] = @ \o lines]
    ELSE MapPut(fs, name, lines)

RECURSIVE SumLen(_, _)
SumLen(fs, names) ==
    IF names = {} THEN 0
    ELSE LET n == CHOOSE x \in names : TRUE
         IN Len(fs[n]) + SumLen(fs, names \ {n})

TotalLines(fs) == SumLen(fs, DOMAIN fs)

(***************************************************************************)
(* State                                                                   *)
(***************************************************************************)
VARIABLES
    files,        \* the storage directory: event file name -> lines
    buffer,       \* EventPersistence.buffer
    currentFile,  \* EventPersistence.currentFile
    nowMs,        \* wall clock, milliseconds
    opResult,     \* what the last call returned (op = "none" otherwise)
    appendLog,    \* history: the lines on disk in the order they were appended
    persisted,    \* history: the events handed to Persist
    epRunning,    \* EventPersistence.running (background flush loop)
    events,       \* EventQueue.events
    running,      \* EventQueue.running
    flushCh,      \* EventQueue.flushCh holds a signal (capacity 1)
    workerAlive,  \* the goroutine of EventQueue.run exists
    send,         \* per caller of Flush: where it is in Flush/sendEvents
    closed,       \* Client.closed
    closePc,      \* where Client.Close is
    nowNano,      \* wall clock, nanoseconds (event ids)
    delivered,    \* history: id -> times the server accepted it
    excused,      \* history: id -> crashes between accept and mark_sent
    lastOutcome,  \* history: id -> outcome of its last completed send
    atStop,       \* history: ids queued when EventQueue.Stop was called
    crashes       \* history: number of crashes so far

(***************************************************************************)
(* Circuit breaker (http package): the struct and its methods as functions *)
(* from the breaker value to the breaker value after the call.             *)
(***************************************************************************)
CircuitClosed == "CLOSED"
CircuitOpen == "OPEN"
CircuitHalfOpen == "HALF_OPEN"

CircuitBreakerConfig(failureThreshold, successThreshold, resetTimeout, halfOpenMaxAllowed) ==
    [FailureThreshold |-> failureThreshold, SuccessThreshold |-> successThreshold,
     ResetTimeout |-> resetTimeout, HalfOpenMaxAllowed |-> halfOpenMaxAllowed]

\* DefaultCircuitBreakerConfig: 5 failures, 2 successes, 30 s, 1 probe; the
\* failure threshold and the timeout are scaled to the bounds.
DefaultCircuitBreakerConfig == CircuitBreakerConfig(MaxThreshold, 2, MaxResetTimeout, 1)

\* NewCircuitBreaker stores the configuration as given: nothing is validated,
\* every other field has its zero value (the zero time is far in the past,
\* which only matters in OPEN, and OPEN is entered by RecordFailure alone).
NewCircuitBreaker(config) ==
    [config |-> config, state |-> CircuitClosed, failures |-> 0, successes |-> 0,
     lastFailureTime |-> 0, halfOpenAllowed |-> 0, halfOpenInProgress |-> 0]

transitionTo(c, newState) ==
    [c EXCEPT !.state = newState, !.failures = 0, !.successes = 0]

\* Allow: the OPEN case falls through into the HALF_OPEN case once the reset
\* timeout has elapsed since lastFailureTime.
Allow(c, now) ==
    IF c.state = CircuitClosed THEN [cb |-> c, ok |-> TRUE]
    ELSE IF c.state = CircuitOpen /\ ~(now - c.lastFailureTime >= c.config.ResetTimeout)
         THEN [cb |-> c, ok |-> FALSE]
         ELSE LET h == IF c.state = CircuitOpen
                       THEN [transitionTo(c, CircuitHalfOpen) EXCEPT
                                !.halfOpenAllowed = c.config.HalfOpenMaxAllowed,
                                !.halfOpenInProgress = 0]
                       ELSE c
              IN IF h.halfOpenInProgress < h.halfOpenAllowed
                 THEN [cb |-> [h EXCEPT !.halfOpenInProgress = @ + 1], ok |-> TRUE]
                 ELSE [cb |-> h, ok |-> FALSE]

\* RecordSuccess that closes only above the threshold.
RecordSuccessAboveThreshold(c) ==
    IF c.state = CircuitHalfOpen
    THEN LET h == [c EXCEPT !.successes = @ + 1, !.halfOpenInProgress = @ - 1]
         IN IF h.successes > h.config.SuccessThreshold
            THEN transitionTo(h, CircuitClosed) ELSE h
    ELSE IF c.state = CircuitClosed THEN [c EXCEPT !.failures = 0]
    ELSE c

RecordSuccess(c) ==
    IF c.state = CircuitHalfOpen
    THEN LET h == [c EXCEPT !.successes = @ + 1, !.halfOpenInProgress = @ - 1]
         IN IF h.successes >= h.config.SuccessThreshold
            THEN transitionTo(h, CircuitClosed) ELSE h
    ELSE IF c.state = CircuitClosed THEN [c EXCEPT !.failures = 0]
    ELSE c

\* RecordFailure that opens only above the threshold.
RecordFailureAboveThreshold(c, now) ==
    LET t == [c EXCEPT !.lastFailureTime = now]
    IN IF t.state = CircuitClosed
       THEN LET h == [t EXCEPT !.failures = @ + 1]
            IN IF h.failures > h.config.FailureThreshold
               THEN transitionTo(h, CircuitOpen) ELSE h
       ELSE IF t.state = CircuitHalfOpen
            THEN transitionTo([t EXCEPT !.halfOpenInProgress = @ - 1], CircuitOpen)
            ELSE t

RecordFailure(c, now) ==
    LET t == [c EXCEPT !.lastFailureTime = now]
    IN IF t.state = CircuitClosed
       THEN LET h == [t EXCEPT !.failures = @ + 1]
            IN IF h.failures >= h.config.FailureThreshold
               THEN transitionTo(h, CircuitOpen) ELSE h
       ELSE IF t.state = CircuitHalfOpen
            THEN transitionTo([t EXCEPT !.halfOpenInProgress = @ - 1], CircuitOpen)
            ELSE t

Reset(c) ==
    [c EXCEPT !.state = CircuitClosed, !.failures = 0, !.successes = 0,
              !.halfOpenAllowed = 0, !.halfOpenInProgress = 0]

VARIABLES
    cb,           \* the CircuitBreaker of the HTTP client
    cbNow,        \* the clock the breaker reads
    req,          \* per caller of HTTPClient.request: where it is in the call
    cbLast,       \* history: the last call on the breaker and what it saw
    streak,       \* history: RecordFailure calls since the last success/Reset
    admitted      \* history: admitted calls that have not reported, by kind

cbVars == <<cb, cbNow, req, cbLast, streak, admitted>>

\* One caller goes through HTTPClient.request; outcomes of other calls reach
\* the breaker through its exported methods.
Requests == {1}

ReqIdle == [pc |-> "idle", attempt |-> 0, calls |-> 0, err |-> "none"]

NoCall == [op |-> "none", r |-> 0, stateBefore |-> CircuitClosed,
           elapsed |-> FALSE, ok |-> FALSE]

\* Calls admitted by Allow that have not yet reported an outcome: "probe" if
\* Allow left the breaker HALF_OPEN when it admitted the call, "old" if not.
NoneAdmitted == [old |-> 0, probe |-> 0]

BreakerInit(config) ==
    /\ cb = NewCircuitBreaker(config)
    /\ cbNow = 0
    /\ req = [r \in Requests |-> ReqIdle]
    /\ cbLast = NoCall
    /\ streak = 0
    /\ admitted = NoneAdmitted

(***************************************************************************)
(* The HTTP client: its API keys and the one call in progress through      *)
(* Get or Post.                                                            *)
(***************************************************************************)
VARIABLES
    hc,           \* the HTTPClient's key fields and retry.MaxAttempts
    httpCall      \* the Get/Post call in progress and what it has done so far

httpVars == <<hc, httpCall>>

PrimaryKey == "sdk_primary"

SecondaryKey == "sdk_secondary"

\* A *time.Time field: nil, or the clock reading stored in it.
NilTime == [nil |-> TRUE, at |-> 0]

TimeAt(now) == [nil |-> FALSE, at |-> now]

HTTPClientConfig(apiKey, secondaryAPIKey, maxAttempts) ==
    [APIKey |-> apiKey, SecondaryAPIKey |-> secondaryAPIKey,
     MaxAttempts |-> maxAttempts]

\* rotations is history: how many times rotateToSecondaryKey returned true.
NewHTTPClient(config) ==
    [apiKey |-> config.APIKey,
     secondaryAPIKey |-> config.SecondaryAPIKey,
     currentAPIKey |-> config.APIKey,
     keyRotationTimestamp |-> NilTime,
     MaxAttempts |-> config.MaxAttempts,
     rotations |-> 0]

NoError == [code |-> "none", cause |-> "none"]

\* pc: where the call is; phase 2 is the request re-sent by
\* postWithKeyRotation.  The other fields are history of the current
\* invocation of request: transport calls made, the status and key of the
\* last one, the statuses seen, and the RecordFailure reports made;
\* authStatus and authKey are the 401/403 that ended the first request and
\* the key it was sent with.
CallIdle ==
    [pc |-> "idle", method |-> "GET", phase |-> 1, attempt |-> 0, calls |-> 0,
     last |-> 0, key |-> "", seen |-> {}, reports |-> 0,
     authStatus |-> 0, authKey |-> "", err |-> NoError]

HttpInit(config) ==
    /\ hc = NewHTTPClient(config)
    /\ httpCall = CallIdle

\* A client with no secondary key.
DefaultHTTPClientConfig == HTTPClientConfig(PrimaryKey, "", MaxAttempts)

(***************************************************************************)
(* The flag cache.                                                         *)
(***************************************************************************)
VARIABLES
    cache,        \* the Cache: entries, ttl, maxSize
    cacheNow,     \* time.Now() as the cache reads it
    setMany,      \* the keys a SetMany call in progress has still to store
    cacheLast     \* history: the Get just made, if the last step was a Get

cacheVars == <<cache, cacheNow, setMany, cacheLast>>

CacheConfig(ttl, maxSize) == [TTL |-> ttl, MaxSize |-> maxSize]

NewCache(config) ==
    [entries |-> EmptyMap, ttl |-> config.TTL, maxSize |-> config.MaxSize]

\* Flag keys; the empty string is a string like any other to Set.
CacheKeys == {"", "a", "b"}

FlagValues == {"on"}

FlagState(key, value) == [Key |-> key, Value |-> value]

CacheEntry(flag, fetchedAt, expiresAt) ==
    [Flag |-> flag, FetchedAt |-> fetchedAt, ExpiresAt |-> expiresAt]

\* A *FlagState result: nil, or the flag pointed to.
NilFlag == [nil |-> TRUE, flag |-> FlagState("", "")]

FlagPtr(flag) == [nil |-> FALSE, flag |-> flag]

NoGet == [op |-> "none", key |-> "", result |-> NilFlag]

CacheInit(config) ==
    /\ cache = NewCache(config)
    /\ cacheNow = 0
    /\ setMany = <<>>
    /\ cacheLast = NoGet

DefaultCacheConfig == CacheConfig(MaxTtl, CacheMaxSize)

(***************************************************************************)
(* The polling manager and the goroutines its Start launches.              *)
(***************************************************************************)
VARIABLES
    pm,           \* the PollingManager's fields
    pollers,      \* the goroutines running PollingManager.run, by launch order
    closedCh,     \* the stop channels that have been closed
    pollLast      \* history: what the last step of a poll did

pollVars == <<pm, pollers, closedCh, pollLast>>

\* BackoffMultiplier is a float64: kept as the fraction num / den.
Multiplier(num, den) == [num |-> num, den |-> den]

PollingConfig(interval, backoffMultiplier, maxInterval) ==
    [Interval |-> interval, BackoffMultiplier |-> backoffMultiplier,
     MaxInterval |-> maxInterval]

\* stopCh is the identity of the channel: 0 for the one made by the
\* constructor, n for the one made by the n-th effective Start.
NewPollingManager(config) ==
    [config |-> config, currentInterval |-> config.Interval,
     consecutiveErrors |-> 0, running |-> FALSE, stopCh |-> 0]

PollerIds == 1..MaxStarts

NotLaunched == [pc |-> "none", ch |-> 0]

NoPoll == [op |-> "none", w |-> 0]

PollInit(config) ==
    /\ pm = NewPollingManager(config)
    /\ pollers = [w \in PollerIds |-> NotLaunched]
    /\ closedCh = {}
    /\ pollLast = NoPoll

\* Interval 100 ms, BackoffMultiplier 2.0, MaxInterval 500 ms.
TestPollingConfig == PollingConfig(1, Multiplier(2, 1), MaxPollInterval)

(***************************************************************************)
(* The event queue on its own (EventQueue with an EventPersister behind    *)
(* it), its clock, and the ids it has stamped.                             *)
(***************************************************************************)
VARIABLES
    eq,           \* the EventQueue's fields: config, events, flushCh
    eqWal,        \* the persister: id -> PersistedEvent
    eqNow,        \* the reading of time.Now().UnixNano()
    eqFlush,      \* the Flush in flight: where it is and the batch it copied
    eqLast,       \* history: what the last call on the queue did
    issued        \* history: the ids generateEventID has returned, in order

trackVars == <<eq, eqWal, eqNow, eqFlush, eqLast, issued>>

EventQueueConfig(maxSize, batchSize) == [MaxSize |-> maxSize, BatchSize |-> batchSize]

NewEventQueue(config) == [config |-> config, events |-> <<>>, flushCh |-> FALSE]

NoFlush == [pc |-> "idle", batch |-> <<>>]

\* recovered: RecoverEvents has run (NewClient calls it once per process).
NoTrack == [op |-> "none", full |-> FALSE, recovered |-> FALSE]

\* The ids a previous process left pending in the log: another session, so
\* another suffix; kept apart from this session's ids by their sign.
OldId(n) == 0 - n

TrackInit(config, old) ==
    /\ eq = NewEventQueue(config)
    /\ eqWal = [id \in {OldId(n) : n \in 1..old} |->
                   PersistedEvent(id, "custom", id, 0, 0, EventStatusPending, 0)]
    /\ eqNow = 1
    /\ eqFlush = NoFlush
    /\ eqLast = NoTrack
    /\ issued = <<>>

DefaultEventQueueConfig == EventQueueConfig(MaxQueue, MaxQueue)

(***************************************************************************)
(* The client: Initialize and Close, the workers they start and stop, and  *)
(* the evaluation of a flag.                                               *)
(***************************************************************************)
VARIABLES
    client,       \* the Client's fields and the state of the parts it owns
    initCall,     \* where the Initialize in flight is
    closeCall,    \* where the Close in flight is
    evalLast      \* history: the last evaluate, its inputs and its result

clientVars == <<client, initCall, closeCall, evalLast>>

\* pollingManager is nil until startPolling makes it; pmRunning and
\* eqRunning are the running fields of the polling manager and the event
\* queue; pollWorkers and flushWorkers count the goroutines launched by
\* their Start that have not returned.
\* Bootstrap is kept as the set of keys that have a bootstrap value.
Options(offline, enablePolling, bootstrap) ==
    [Offline |-> offline, EnablePolling |-> enablePolling, Bootstrap |-> bootstrap]

ClientFields(options) ==
    [options |-> options, closed |-> FALSE, ready |-> FALSE,
     pollingManager |-> FALSE, pmRunning |-> FALSE, eqRunning |-> FALSE,
     pollWorkers |-> 0, flushWorkers |-> 0]

\* entry: the cached entry the call found under its key (nil: none), and
\* now: the clock reading of the call.
NoEval == [op |-> "none", key |-> "", expectedType |-> "", defaultValue |-> "",
           entry |-> [nil |-> TRUE], now |-> 0, result |-> [nil |-> TRUE]]

ClientInit(options) ==
    /\ client = ClientFields(options)
    /\ initCall = "idle"
    /\ closeCall = "idle"
    /\ evalLast = NoEval

DefaultOptions == Options(FALSE, TRUE, {})

(***************************************************************************)
(* State of the parts checked one at a time: the bootstrap applied by      *)
(* NewClient.                                                              *)
(***************************************************************************)
VARIABLES
    boot,         \* NewClient's options for the bootstrap, and what applyBootstrap did
    sq,           \* the event queue's running flag, its worker, and every Flush in flight
    lk,           \* eq.mu: who holds it, where each caller is, who is inside an I/O call
    posts,        \* the goroutines inside HTTPClient.Post, and what each has done
    wr,           \* one call of WithRetry: its config, attempt and sleep
    pn,           \* one call of PollingManager.PollNow
    sm,           \* the StreamingManager, its timers and its connection goroutines
    hd            \* two EventPersistence handles on one storage directory

extVars == <<boot, sq, lk, posts, wr, pn, sm, hd>>

\* BootstrapWithSignature: nil, or Flags (the set of keys), Signature and
\* Timestamp.  A signature is what was signed and with which key.
NilBootstrap == [nil |-> TRUE]

BootstrapConfig(flags, signature, timestamp) ==
    [nil |-> FALSE, Flags |-> flags, Signature |-> signature, Timestamp |-> timestamp]

BootstrapVerificationConfig(enabled, maxAge, onFailure) ==
    [Enabled |-> enabled, MaxAge |-> maxAge, OnFailure |-> onFailure]

BootOptions(bootstrap, signed, verification, hasOnError) ==
    [Bootstrap |-> bootstrap, BootstrapWithSignature |-> signed,
     BootstrapVerification |-> verification, OnError |-> hasOnError]

DefaultBootOptions ==
    BootOptions({}, NilBootstrap, BootstrapVerificationConfig(TRUE, 1, "warn"), FALSE)

BootInit(options) ==
    boot = [options |-> options, constructed |-> FALSE, onError |-> 0, now |-> 0]

\* The queue as NewEventQueue leaves it: not started, nobody in Flush.
SendInit ==
    sq = [running |-> FALSE, workerAlive |-> FALSE, stopPc |-> "idle",
          send |-> [f \in {"worker", "caller", "closer"} |-> NoFlush]]

\* The callers of the queue followed line by line: one in Track or
\* TrackWithContext, one in Flush, one in RecoverEvents.
LockCallers == {"track", "flush", "recover"}

LockInit ==
    lk = [holder |-> "none", pc |-> [t \in LockCallers |-> "idle"], io |-> {},
          batch |-> <<>>, recovered |-> <<>>]

\* Two goroutines call Post on one HTTPClient.  sent: the keys of the
\* requests made, in order; statuses: the answers to them.
Posters == {1, 2}

PostIdle == [pc |-> "idle", phase |-> 0, sent |-> <<>>, statuses |-> <<>>,
             err |-> NoError]

PostsInit == posts = [p \in Posters |-> PostIdle]

\* Durations are whole ticks; BackoffMultiplier is a fraction as in
\* PollingConfig.
RetryConfig(maxAttempts, baseDelay, maxDelay, backoffMultiplier, jitter) ==
    [MaxAttempts |-> maxAttempts, BaseDelay |-> baseDelay, MaxDelay |-> maxDelay,
     BackoffMultiplier |-> backoffMultiplier, Jitter |-> jitter]

DefaultRetryConfig == RetryConfig(MaxAttempts, 1, MaxRetryDelay, Multiplier(2, 1), 1)

\* pc: "idle" before the call, "fn" while fn runs, "sleep" in time.Sleep,
\* "done" after the return; delay is the argument of the last time.Sleep.
RetryInit(config) ==
    wr = [config |-> config, pc |-> "idle", attempt |-> 0, delay |-> 0,
          sleeps |-> 0, err |-> "none"]

\* The goroutine that calls PollNow: where it is in poll, and how many
\* times it has called onPoll.
PollNowInit == pn = [pc |-> "idle", invoked |-> 0]

StreamingStateDisconnected == "disconnected"
StreamingStateConnecting == "connecting"
StreamingStateConnected == "connected"
StreamingStateReconnecting == "reconnecting"
StreamingStateFailed == "failed"

\* The goroutines `go sm.initiateConnection()` can start in one run.
ConnIds == 1..MaxConns

\* NewStreamingManager.  cancelFunc is the context it cancels (0: nil);
\* the timers kept in fields are flags, the timers of scheduleReconnect,
\* kept nowhere, are counted.  conns[c] is a goroutine of
\* initiateConnection and the context it made; quiet says that Disconnect
\* has returned and neither Connect nor RetryConnection was called since.
StreamInit ==
    sm = [state |-> StreamingStateDisconnected, consecutiveFailures |-> 0,
          cancelFunc |-> 0, cancelled |-> {},
          tokenRefreshTimer |-> FALSE, heartbeatTimer |-> FALSE,
          retryTimer |-> FALSE, reconnectTimers |-> 0,
          conns |-> [c \in ConnIds |-> [pc |-> "none", ctx |-> 0]],
          quiet |-> FALSE]

\* Two handles (two clients, or two processes) opened on one directory.
Handles == {"a", "b"}

\* ep[h]: the handle's buffer and currentFile; owner: who persisted each
\* id; flushed: ids whose event reached the disk; terminal: ids marked
\* sent or failed since.
HandlesInit ==
    hd = [ep |-> [h \in Handles |->
                     [buffer |-> <<>>,
                      currentFile |-> generateFileName(IF h = "a" THEN 1 ELSE 2)]],
          owner |-> EmptyMap, flushed |-> {}, terminal |-> {}]

ExtInit ==
    /\ BootInit(DefaultBootOptions)
    /\ SendInit
    /\ LockInit
    /\ PostsInit
    /\ RetryInit(DefaultRetryConfig)
    /\ PollNowInit
    /\ StreamInit
    /\ HandlesInit

walVars == <<files, buffer, currentFile, nowMs, opResult, appendLog, persisted>>

queueVars == <<epRunning, events, running, flushCh, workerAlive, send, closed,
               closePc, nowNano, delivered, excused, lastOutcome, atStop, crashes>>

NoResult == [op |-> "none"]

\* Non-empty id lists without repetition, the arguments of the Mark calls.
IdLists == UNION {Perms(S) : S \in (SUBSET EventIds) \ {{}}}

(***************************************************************************)
(* EventPersistence operations.  File-system errors (open, write, fsync,   *)
(* flock failing) are not modelled: every call below succeeds.             *)
(***************************************************************************)
\* flushLocked: the files after the buffered events were appended.
flushLocked(fs, buf, cur) ==
    IF buf = <<>> THEN fs
    ELSE AppendTo(fs, cur, [i \in 1..Len(buf) |-> MarshalEvent(buf[i])])

\* The history of appends after the same flush.
LogFlush(log, buf) == log \o [i \in 1..Len(buf) |-> MarshalEvent(buf[i])]

\* Persist: defaults, buffer, flush when the buffer is full.
PersistDefaults(event) ==
    [event EXCEPT !.timestamp = IF @ = 0 THEN nowMs ELSE @,
                  !.status = IF @ = "" THEN EventStatusPending ELSE @]

PersistEffect(event) ==
    LET ev == PersistDefaults(event)
        buf == Append(buffer, ev)
    IN /\ persisted' = persisted \cup {ev}
       /\ IF Len(buf) >= BufferSize
          THEN /\ files' = flushLocked(files, buf, currentFile)
               /\ appendLog' = LogFlush(appendLog, buf)
               /\ buffer' = <<>>
          ELSE /\ buffer' = buf
               /\ UNCHANGED <<files, appendLog>>

\* The events callers hand to Persist: one payload per id.
InputEvent(id, st) == PersistedEvent(id, "custom", id, 0, 10 + id, st, 0)

Persist ==
    /\ TotalLines(files) + Len(buffer) < MaxLines
    /\ \E id \in EventIds, st \in {"", EventStatusPending} :
          PersistEffect(InputEvent(id, st))
    /\ opResult' = NoResult
    /\ UNCHANGED <<currentFile, nowMs, queueVars>>
    /\ UNCHANGED <<cbVars, httpVars, cacheVars, pollVars, trackVars, clientVars, extVars>>

FlushEffect ==
    /\ files' = flushLocked(files, buffer, currentFile)
    /\ appendLog' = LogFlush(appendLog, buffer)
    /\ buffer' = <<>>

Flush ==
    /\ FlushEffect
    /\ opResult' = NoResult
    /\ UNCHANGED <<currentFile, nowMs, persisted, queueVars>>
    /\ UNCHANGED <<cbVars, httpVars, cacheVars, pollVars, trackVars, clientVars, extVars>>

\* MarkSending / MarkSent / MarkFailed: one status update per id.
MarkEffect(ids, status) ==
    LET lines == [i \in 1..Len(ids) |-> MarshalUpdate(ids[i], status, nowMs)]
    IN IF ids = <<>>
       THEN UNCHANGED <<files, appendLog>>
       ELSE /\ files' = AppendTo(files, currentFile, lines)
            /\ appendLog' = appendLog \o lines

MarkSending ==
    /\ \E ids \in IdLists :
          /\ TotalLines(files) + Len(buffer) + Len(ids) <= MaxLines
          /\ MarkEffect(ids, EventStatusSending)
    /\ opResult' = NoResult
    /\ UNCHANGED <<buffer, currentFile, nowMs, persisted, queueVars>>
    /\ UNCHANGED <<cbVars, httpVars, cacheVars, pollVars, trackVars, clientVars, extVars>>

MarkSent ==
    /\ \E ids \in IdLists :
          /\ TotalLines(files) + Len(buffer) + Len(ids) <= MaxLines
          /\ MarkEffect(ids, EventStatusSent)
    /\ opResult' = NoResult
    /\ UNCHANGED <<buffer, currentFile, nowMs, persisted, queueVars>>
    /\ UNCHANGED <<cbVars, httpVars, cacheVars, pollVars, trackVars, clientVars, extVars>>

MarkFailed ==
    /\ \E ids \in IdLists :
          /\ TotalLines(files) + Len(buffer) + Len(ids) <= MaxLines
          /\ MarkEffect(ids, EventStatusFailed)
    /\ opResult' = NoResult
    /\ UNCHANGED <<buffer, currentFile, nowMs, persisted, queueVars>>
    /\ UNCHANGED <<cbVars, httpVars, cacheVars, pollVars, trackVars, clientVars, extVars>>

RecoverCall ==
    /\ opResult' = [op |-> "recover", out |-> Recover(files)]
    /\ UNCHANGED <<files, buffer, currentFile, nowMs, appendLog, persisted, queueVars>>
    /\ UNCHANGED <<cbVars, httpVars, cacheVars, pollVars, trackVars, clientVars, extVars>>

\* Cleanup: read everything, remove every file, write the live events to a
\* file with a fresh name (no file is created when nothing is live).
CleanupEffect(order) ==
    LET name == generateFileName(nowMs)
        lines == [i \in 1..Len(order) |-> MarshalEvent(order[i])]
    IN /\ currentFile' = name
       /\ files' = IF order = <<>> THEN EmptyMap ELSE MapPut(EmptyMap, name, lines)
       /\ appendLog' = lines

Cleanup ==
    /\ \E order \in Perms(CleanupKeep(files)) : CleanupEffect(order)
    /\ opResult' = [op |-> "cleanup", before |-> Recover(files),
                    oldFiles |-> DOMAIN files]
    /\ UNCHANGED <<buffer, nowMs, persisted, queueVars>>
    /\ UNCHANGED <<cbVars, httpVars, cacheVars, pollVars, trackVars, clientVars, extVars>>

\* The handle is dropped (process exit or crash) and NewEventPersistence
\* opens the directory again; a restart takes more than a millisecond.
Reopen ==
    /\ nowMs < MaxMs
    /\ nowMs' = nowMs + 1
    /\ currentFile' = generateFileName(nowMs')
    /\ buffer' = <<>>
    /\ opResult' = NoResult
    /\ UNCHANGED <<files, appendLog, persisted, queueVars>>
    /\ UNCHANGED <<cbVars, httpVars, cacheVars, pollVars, trackVars, clientVars, extVars>>

\* A crash in the middle of flushLocked: some buffered events were written,
\* the next one only in part.
CrashMidFlush ==
    /\ nowMs < MaxMs
    /\ buffer # <<>>
    /\ TotalLines(files) + Len(buffer) <= MaxLines
    /\ \E k \in 0..(Len(buffer) - 1) :
          LET lines == [i \in 1..k |-> MarshalEvent(buffer[i])] \o <<TornLine>>
          IN /\ files' = AppendTo(files, currentFile, lines)
             /\ appendLog' = appendLog \o lines
    /\ nowMs' = nowMs + 1
    /\ currentFile' = generateFileName(nowMs')
    /\ buffer' = <<>>
    /\ opResult' = NoResult
    /\ UNCHANGED <<persisted, queueVars>>
    /\ UNCHANGED <<cbVars, httpVars, cacheVars, pollVars, trackVars, clientVars, extVars>>

WalInit ==
    /\ files = EmptyMap
    /\ buffer = <<>>
    /\ nowMs = 1
    /\ currentFile = generateFileName(1)
    /\ opResult = NoResult
    /\ appendLog = <<>>
    /\ persisted = {}

vars == <<walVars, queueVars, cbVars, httpVars, cacheVars, pollVars, trackVars,
         clientVars, extVars>>

Flushers == {"worker", "caller", "closer"}

Idle == [pc |-> "idle", batch |-> <<>>, kind |-> "none"]

QueueInit ==
    /\ events = <<>>
    /\ running = FALSE
    /\ flushCh = FALSE
    /\ workerAlive = FALSE
    /\ send = [f \in Flushers |-> Idle]
    /\ closed = FALSE
    /\ closePc = "idle"
    /\ nowNano = 1
    /\ delivered = [id \in EventIds |-> 0]
    /\ excused = [id \in EventIds |-> 0]
    /\ lastOutcome = [id \in EventIds |-> "none"]
    /\ atStop = {}
    /\ crashes = 0

\* The log on its own: a handle from NewEventPersistence, not started.
InitWal == WalInit /\ QueueInit /\ epRunning = FALSE
           /\ BreakerInit(DefaultCircuitBreakerConfig)
           /\ HttpInit(DefaultHTTPClientConfig)
           /\ CacheInit(DefaultCacheConfig)
           /\ PollInit(TestPollingConfig)
           /\ TrackInit(DefaultEventQueueConfig, 0)
           /\ ClientInit(DefaultOptions)
           /\ ExtInit

(***************************************************************************)
(* Event queue (internal/core, EventQueue) wired to the log by the client. *)
(* Persistence is enabled.  Code under eq.mu is one step; a call into the  *)
(* log is one step (ep.mu and the file lock); the HTTP POST is one step    *)
(* whose outcome is an input.                                              *)
(***************************************************************************)
\* core.Event as the queue holds it.
QEvent(id, type, data, context, timestamp) ==
    [id |-> id, type |-> type, data |-> data, context |-> context,
     timestamp |-> timestamp]

\* generateEventID: "evt_<UnixNano>_<session prefix>"; within one session
\* the id is the clock reading.
generateEventID(nano) == nano

SeqIds(q) == [i \in 1..Len(q) |-> q[i].id]

RangeIds(q) == {q[i].id : i \in 1..Len(q)}

\* Track: persist first, then enqueue, then signal a full batch.  Track on a
\* full queue drops the event and changes nothing.  Two tracks never read
\* the same nanosecond here.
Track ==
    /\ nowNano <= MaxEvents
    /\ Len(events) < MaxSize
    /\ LET eventID == generateEventID(nowNano)
       IN /\ PersistEffect(PersistedEvent(eventID, "custom", eventID, 0, nowMs,
                                          EventStatusPending, 0))
          /\ events' = Append(events, QEvent(eventID, "custom", eventID, 0, nowMs))
    /\ flushCh' = (flushCh \/ Len(events') >= BatchSize)
    /\ nowNano' = nowNano + 1
    /\ UNCHANGED <<currentFile, nowMs, opResult, epRunning, running, workerAlive,
                   send, closed, closePc, delivered, excused, lastOutcome, atStop, crashes>>
    /\ UNCHANGED <<cbVars, httpVars, cacheVars, pollVars, trackVars, clientVars, extVars>>

\* Flush, first half: copy the queue and clear it under the lock.
Snapshot(f) ==
    /\ send[f].pc = "idle"
    /\ events # <<>>
    /\ send' = [send EXCEPT ![f] = [pc |-> "mark", batch |-> events, kind |-> "none"]]
    /\ events' = <<>>

\* run: the ticker fired.
WorkerTick ==
    /\ workerAlive
    /\ Snapshot("worker")
    /\ UNCHANGED <<walVars, epRunning, running, flushCh, workerAlive, closed,
                   closePc, nowNano, delivered, excused, lastOutcome, atStop, crashes>>
    /\ UNCHANGED <<cbVars, httpVars, cacheVars, pollVars, trackVars, clientVars, extVars>>

\* run: a batch-full signal was received.
WorkerSignal ==
    /\ workerAlive
    /\ flushCh
    /\ send["worker"].pc = "idle"
    /\ flushCh' = FALSE
    /\ IF events # <<>> THEN Snapshot("worker") ELSE UNCHANGED <<send, events>>
    /\ UNCHANGED <<walVars, epRunning, running, workerAlive, closed,
                   closePc, nowNano, delivered, excused, lastOutcome, atStop, crashes>>
    /\ UNCHANGED <<cbVars, httpVars, cacheVars, pollVars, trackVars, clientVars, extVars>>

\* run: the stop channel was closed.
WorkerExit ==
    /\ workerAlive
    /\ ~running
    /\ send["worker"].pc = "idle"
    /\ workerAlive' = FALSE
    /\ UNCHANGED <<walVars, epRunning, events, running, flushCh, send, closed,
                   closePc, nowNano, delivered, excused, lastOutcome, atStop, crashes>>
    /\ UNCHANGED <<cbVars, httpVars, cacheVars, pollVars, trackVars, clientVars, extVars>>

\* Client.Flush from an application thread.
CallerFlush ==
    /\ Snapshot("caller")
    /\ UNCHANGED <<walVars, epRunning, running, flushCh, workerAlive, closed,
                   closePc, nowNano, delivered, excused, lastOutcome, atStop, crashes>>
    /\ UNCHANGED <<cbVars, httpVars, cacheVars, pollVars, trackVars, clientVars, extVars>>

\* sendEvents: MarkSending before the send attempt.
SendMarkSending(f) ==
    /\ send[f].pc = "mark"
    /\ MarkEffect(SeqIds(send[f].batch), EventStatusSending)
    /\ send' = [send EXCEPT ![f].pc = "post"]
    /\ UNCHANGED <<buffer, currentFile, nowMs, opResult, persisted, epRunning,
                   events, running, flushCh, workerAlive, closed, closePc,
                   nowNano, delivered, excused, lastOutcome, atStop, crashes>>
    /\ UNCHANGED <<cbVars, httpVars, cacheVars, pollVars, trackVars, clientVars, extVars>>

\* httpClient.Post returned without error: the server accepted the batch.
PostOk(f) ==
    /\ send[f].pc = "post"
    /\ delivered' = [id \in EventIds |->
                        IF id \in RangeIds(send[f].batch) THEN delivered[id] + 1
                        ELSE delivered[id]]
    /\ send' = [send EXCEPT ![f].pc = "ack"]
    /\ UNCHANGED <<walVars, epRunning, events, running, flushCh, workerAlive,
                   closed, closePc, nowNano, excused, lastOutcome, atStop, crashes>>
    /\ UNCHANGED <<cbVars, httpVars, cacheVars, pollVars, trackVars, clientVars, extVars>>

\* httpClient.Post returned an error: transient (network, timeout, 5xx, 429,
\* circuit open) or terminal (other 4xx).
PostFail(f) ==
    /\ send[f].pc = "post"
    /\ \E k \in {"transient", "terminal"} :
          send' = [send EXCEPT ![f].pc = "nack", ![f].kind = k]
    /\ UNCHANGED <<walVars, epRunning, events, running, flushCh, workerAlive,
                   closed, closePc, nowNano, delivered, excused, lastOutcome, atStop, crashes>>
    /\ UNCHANGED <<cbVars, httpVars, cacheVars, pollVars, trackVars, clientVars, extVars>>

\* Flush has returned to its caller; Stop's final flush returns into Close.
SendDone(f, outcome) ==
    /\ lastOutcome' = [id \in EventIds |->
                          IF id \in RangeIds(send[f].batch) THEN outcome
                          ELSE lastOutcome[id]]
    /\ send' = [send EXCEPT ![f] = Idle]
    /\ closePc' = IF f = "closer" THEN "closeWal" ELSE closePc

\* sendEvents: MarkSent after a successful send.
SendMarkSent(f) ==
    /\ send[f].pc = "ack"
    /\ MarkEffect(SeqIds(send[f].batch), EventStatusSent)
    /\ SendDone(f, "ok")
    /\ UNCHANGED <<buffer, currentFile, nowMs, opResult, persisted, epRunning,
                   events, running, flushCh, workerAlive, closed, nowNano,
                   delivered, excused, atStop, crashes>>
    /\ UNCHANGED <<cbVars, httpVars, cacheVars, pollVars, trackVars, clientVars, extVars>>

\* sendEvents: MarkFailed after any send error.
SendMarkFailed(f) ==
    /\ send[f].pc = "nack"
    /\ MarkEffect(SeqIds(send[f].batch), EventStatusFailed)
    /\ SendDone(f, send[f].kind)
    /\ UNCHANGED <<buffer, currentFile, nowMs, opResult, persisted, epRunning,
                   events, running, flushCh, workerAlive, closed, nowNano,
                   delivered, excused, atStop, crashes>>
    /\ UNCHANGED <<cbVars, httpVars, cacheVars, pollVars, trackVars, clientVars, extVars>>

\* Client.Initialize succeeded: EventQueue.Start launches run.  (A failed or
\* offline Initialize leaves the queue as it is.)
QueueStart ==
    /\ ~closed
    /\ ~running
    /\ running' = TRUE
    /\ workerAlive' = TRUE
    /\ UNCHANGED <<walVars, epRunning, events, flushCh, send, closed, closePc,
                   nowNano, delivered, excused, lastOutcome, atStop, crashes>>
    /\ UNCHANGED <<cbVars, httpVars, cacheVars, pollVars, trackVars, clientVars, extVars>>

\* EventPersistence.run: the background flush.
PersistTick ==
    /\ epRunning
    /\ buffer # <<>>
    /\ FlushEffect
    /\ UNCHANGED <<currentFile, nowMs, opResult, persisted, queueVars>>
    /\ UNCHANGED <<cbVars, httpVars, cacheVars, pollVars, trackVars, clientVars, extVars>>

\* Client.Close: the closed flag.
CloseBegin ==
    /\ closePc = "idle"
    /\ ~closed
    /\ closed' = TRUE
    /\ closePc' = "stop"
    /\ UNCHANGED <<walVars, epRunning, events, running, flushCh, workerAlive,
                   send, nowNano, delivered, excused, lastOutcome, atStop, crashes>>
    /\ UNCHANGED <<cbVars, httpVars, cacheVars, pollVars, trackVars, clientVars, extVars>>

\* EventQueue.Stop, under the lock: return if not running, else clear the
\* flag and close the stop channel.
StopQueue ==
    /\ closePc = "stop"
    /\ atStop' = RangeIds(events)
    /\ IF ~running
       THEN /\ closePc' = "closeWal"
            /\ UNCHANGED running
       ELSE /\ running' = FALSE
            /\ closePc' = "flush"
    /\ UNCHANGED <<walVars, epRunning, events, flushCh, workerAlive, send, closed,
                   nowNano, delivered, excused, lastOutcome, crashes>>
    /\ UNCHANGED <<cbVars, httpVars, cacheVars, pollVars, trackVars, clientVars, extVars>>

\* EventQueue.Stop: the final Flush.
FinalFlush ==
    /\ closePc = "flush"
    /\ IF events = <<>>
       THEN /\ closePc' = "closeWal"
            /\ UNCHANGED <<send, events>>
       ELSE /\ Snapshot("closer")
            /\ closePc' = "sending"
    /\ UNCHANGED <<walVars, epRunning, running, flushCh, workerAlive, closed,
                   nowNano, delivered, excused, lastOutcome, atStop, crashes>>
    /\ UNCHANGED <<cbVars, httpVars, cacheVars, pollVars, trackVars, clientVars, extVars>>

\* EventPersistence.Close: Stop, then a last Flush.
CloseWal ==
    /\ closePc = "closeWal"
    /\ epRunning' = FALSE
    /\ FlushEffect
    /\ closePc' = "done"
    /\ UNCHANGED <<currentFile, nowMs, opResult, persisted, events, running,
                   flushCh, workerAlive, send, closed, nowNano, delivered,
                   excused, lastOutcome, atStop, crashes>>
    /\ UNCHANGED <<cbVars, httpVars, cacheVars, pollVars, trackVars, clientVars, extVars>>

\* RecoverEvents: each recovered event goes to the front of the queue until
\* the queue is full.
RECURSIVE RecoverInto(_, _, _)
RecoverInto(recovered, q, maxSize) ==
    IF recovered = <<>> \/ Len(q) >= maxSize THEN q
    ELSE LET pe == Head(recovered)
         IN RecoverInto(Tail(recovered),
                <<QEvent(pe.id, pe.type, pe.data, pe.context, pe.timestamp)>> \o q,
                maxSize)

PrependRecovered(recovered, q) == RecoverInto(recovered, q, MaxSize)

\* The process is gone and a new one runs NewClient on the same directory:
\* NewEventPersistence, Start, RecoverEvents.  Memory is lost, files stay.
NewClient ==
    /\ nowMs < MaxMs
    /\ nowMs' = nowMs + 1
    /\ currentFile' = generateFileName(nowMs')
    /\ buffer' = <<>>
    /\ epRunning' = TRUE
    /\ \E order \in Perms(Recover(files)) : events' = PrependRecovered(order, <<>>)
    /\ running' = FALSE
    /\ flushCh' = FALSE
    /\ workerAlive' = FALSE
    /\ send' = [f \in Flushers |-> Idle]
    /\ closed' = FALSE
    /\ closePc' = "idle"
    /\ atStop' = {}
    /\ UNCHANGED <<files, opResult, appendLog, persisted, nowNano, delivered,
                   lastOutcome>>

\* A crash at any moment, then a restart.
Crash ==
    /\ NewClient
    /\ crashes' = crashes + 1
    /\ excused' = [id \in EventIds |->
                      IF \E f \in Flushers : send[f].pc = "ack" /\ id \in RangeIds(send[f].batch)
                      THEN excused[id] + 1 ELSE excused[id]]
    /\ UNCHANGED <<cbVars, httpVars, cacheVars, pollVars, trackVars, clientVars, extVars>>

\* The process exits after Close has returned and nothing is in flight,
\* then a restart.
ExitAndRestart ==
    /\ closePc = "done"
    /\ \A f \in Flushers : send[f].pc = "idle"
    /\ NewClient
    /\ UNCHANGED <<excused, crashes>>
    /\ UNCHANGED <<cbVars, httpVars, cacheVars, pollVars, trackVars, clientVars, extVars>>

\* The state NewClient leaves on an empty directory.
InitQueue == WalInit /\ QueueInit /\ epRunning = TRUE
             /\ BreakerInit(DefaultCircuitBreakerConfig)
             /\ HttpInit(DefaultHTTPClientConfig)
             /\ CacheInit(DefaultCacheConfig)
             /\ PollInit(TestPollingConfig)
             /\ TrackInit(DefaultEventQueueConfig, 0)
             /\ ClientInit(DefaultOptions)
             /\ ExtInit

NextQueue ==
    \/ Track
    \/ WorkerTick
    \/ WorkerSignal
    \/ WorkerExit
    \/ CallerFlush
    \/ \E f \in Flushers : SendMarkSending(f)
    \/ \E f \in Flushers : PostOk(f)
    \/ \E f \in Flushers : PostFail(f)
    \/ \E f \in Flushers : SendMarkSent(f)
    \/ \E f \in Flushers : SendMarkFailed(f)
    \/ QueueStart
    \/ PersistTick
    \/ CloseBegin
    \/ StopQueue
    \/ FinalFlush
    \/ CloseWal
    \/ Crash
    \/ ExitAndRestart

SpecQueue == InitQueue /\ [][NextQueue]_vars

(***************************************************************************)
(* Properties of the queue and its use of the log                          *)
(***************************************************************************)
IsEventLine(l, id) == "id" \in DOMAIN l /\ l.id = id /\ "type" \in DOMAIN l

IsUpdateLine(l, id) == "id" \in DOMAIN l /\ l.id = id /\ "type" \notin DOMAIN l

\* A full PENDING record of the id has been appended to an event file.
PendingOnDisk(id) == \E i \in 1..Len(appendLog) : IsEventLine(appendLog[i], id)

\* C1: an event reaches the server at most once, plus once for each crash
\* that fell between the server accepting its batch and mark_sent.
C1_AtMostOneDuplicatePerCrash ==
    \A id \in EventIds : delivered[id] <= 1 + excused[id]

\* C5: the PENDING record of an event is in the log before the event is
\* eligible for flush: before it is in the queue or in a flush snapshot, and
\* before any status record of its id.
C5_PersistedBeforeEligible ==
    /\ \A id \in RangeIds(events) : PendingOnDisk(id)
    /\ \A f \in Flushers : \A id \in RangeIds(send[f].batch) : PendingOnDisk(id)
    /\ \A i \in 1..Len(appendLog) : \A id \in EventIds :
          IsUpdateLine(appendLog[i], id) =>
              \E j \in 1..(i - 1) : IsEventLine(appendLog[j], id)

\* C6: after a send that failed transiently the events of the batch are
\* still live in the log: recover() returns them.
C6_TransientFailureKeepsEvents ==
    \A id \in EventIds :
        lastOutcome[id] = "transient" => id \in IdsOf(Recover(files))

\* C7: once EventQueue.Stop has returned inside Close, no event that was
\* queued when Stop was called is still in the in-memory queue.
C7_StopDrainsQueue ==
    closePc \in {"closeWal", "done"} => atStop \cap RangeIds(events) = {}

NextWal ==
    \/ Persist
    \/ Flush
    \/ MarkSending
    \/ MarkSent
    \/ MarkFailed
    \/ RecoverCall
    \/ Cleanup
    \/ Reopen
    \/ CrashMidFlush

SpecWal == InitWal /\ [][NextWal]_vars

(***************************************************************************)
(* Properties of the log.  They are stated over appendLog, the history of  *)
(* appends, and not over the replay the code performs.                     *)
(***************************************************************************)
\* The readable records of one id, in append order.
RecordsOf(id) ==
    SelectSeq(appendLog, LAMBDA l : "id" \in DOMAIN l /\ l.id = id)

HasRecord(id) == RecordsOf(id) # <<>>

FinalStatus(id) == RecordsOf(id)[Len(RecordsOf(id))].status

FinalIsLive(id) ==
    HasRecord(id) /\ FinalStatus(id) \in {EventStatusPending, EventStatusSending}

FinalIsTerminal(id) ==
    HasRecord(id) /\ FinalStatus(id) \in {EventStatusSent, EventStatusFailed}

\* The first record of the id is the full PENDING event a flush wrote.
PersistedFirst(id) ==
    /\ HasRecord(id)
    /\ \E e \in persisted : RecordsOf(id)[1] = MarshalEvent(e)

\* C2: once the last record of an id is SENT or FAILED, no later operation
\* makes recover() return that id again.
C2_TerminalStaysTerminal ==
    [][\A id \in EventIds :
          FinalIsTerminal(id) => id \notin IdsOf(Recover(files'))]_vars

C4_RecoverReturnsOriginal ==
    opResult.op = "recover" =>
        \A r \in opResult.out :
            (PersistedFirst(r.id) /\ FinalStatus(r.id) = EventStatusSending)
                => r \in {[e EXCEPT !.status = EventStatusPending] : e \in persisted}

\* C8: recover() after cleanup() returns what it returned before; the older
\* files are gone and the live events sit in one fresh file.
C8_CleanupKeepsLive ==
    opResult.op = "cleanup" =>
        /\ Recover(files) = opResult.before
        /\ DOMAIN files \subseteq {currentFile}
        /\ opResult.before # {} =>
              /\ DOMAIN files = {currentFile}
              /\ Len(files[currentFile]) = Cardinality(opResult.before)

\* C8 witness: a cleanup() that found live events in two older files.
C8_Witness ==
    /\ opResult.op = "cleanup"
    /\ opResult.before # {}
    /\ Cardinality(opResult.oldFiles) >= 2
    /\ DOMAIN files = {currentFile}

(***************************************************************************)
(* The request pipeline of the HTTP client around the breaker, and the     *)
(* breaker's exported methods called directly.                             *)
(***************************************************************************)
Call(op, r, ok) ==
    [op |-> op, r |-> r, stateBefore |-> cb.state,
     elapsed |-> (cbNow - cb.lastFailureTime >= cb.config.ResetTimeout), ok |-> ok]

\* The history counter saturates one above the largest threshold.
StreakUp == IF streak <= MaxThreshold THEN streak + 1 ELSE streak

ClockTick ==
    /\ cbNow < MaxClock
    /\ cbNow' = cbNow + 1
    /\ UNCHANGED <<cb, req, cbLast, streak, admitted, httpVars, cacheVars, pollVars, trackVars, clientVars, walVars, queueVars, extVars>>

\* HTTPClient.request up to its first doRequest: the breaker is consulted
\* once, and a refusal returns ErrCircuitOpen before any transport call.
RequestBegin(r) ==
    /\ req[r].pc \in {"idle", "done"}
    /\ LET a == Allow(cb, cbNow)
       IN /\ cb' = a.cb
          /\ cbLast' = Call("request", r, a.ok)
          /\ req' = [req EXCEPT ![r] =
                        IF a.ok
                        THEN [pc |-> "try", attempt |-> 1, calls |-> 0, err |-> "none"]
                        ELSE [pc |-> "done", attempt |-> 0, calls |-> 0,
                              err |-> "CIRCUIT_OPEN"]]
    /\ UNCHANGED <<cbNow, streak, admitted, httpVars, cacheVars, pollVars, trackVars, clientVars, walVars, queueVars, extVars>>

\* doRequest returned a response: RecordSuccess, return.
DoRequestOk(r) ==
    /\ req[r].pc = "try"
    /\ cb' = RecordSuccess(cb)
    /\ cbLast' = Call("record_success", r, TRUE)
    /\ streak' = 0
    /\ req' = [req EXCEPT ![r] = [@ EXCEPT !.pc = "done", !.calls = @ + 1]]
    /\ UNCHANGED <<cbNow, admitted, httpVars, cacheVars, pollVars, trackVars, clientVars, walVars, queueVars, extVars>>

\* doRequest returned an error that isRetryable rejects: RecordFailure, return.
DoRequestFatal(r) ==
    /\ req[r].pc = "try"
    /\ cb' = RecordFailure(cb, cbNow)
    /\ cbLast' = Call("record_failure", r, TRUE)
    /\ streak' = StreakUp
    /\ req' = [req EXCEPT ![r] = [@ EXCEPT !.pc = "done", !.calls = @ + 1,
                                             !.err = "FATAL"]]
    /\ UNCHANGED <<cbNow, admitted, httpVars, cacheVars, pollVars, trackVars, clientVars, walVars, queueVars, extVars>>

\* doRequest returned a retryable error: back off while attempts remain,
\* otherwise RecordFailure and ErrNetworkRetryLimit.
DoRequestRetryable(r) ==
    /\ req[r].pc = "try"
    /\ IF req[r].attempt >= MaxAttempts
       THEN /\ cb' = RecordFailure(cb, cbNow)
            /\ cbLast' = Call("record_failure", r, TRUE)
            /\ streak' = StreakUp
            /\ req' = [req EXCEPT ![r] = [@ EXCEPT !.pc = "done", !.calls = @ + 1,
                                                     !.err = "RETRY_LIMIT"]]
       ELSE /\ req' = [req EXCEPT ![r] = [@ EXCEPT !.pc = "backoff", !.calls = @ + 1]]
            /\ UNCHANGED <<cb, cbLast, streak>>
    /\ UNCHANGED <<cbNow, admitted, httpVars, cacheVars, pollVars, trackVars, clientVars, walVars, queueVars, extVars>>

\* The backoff sleep ended: next attempt.
BackoffDone(r) ==
    /\ req[r].pc = "backoff"
    /\ req' = [req EXCEPT ![r] = [@ EXCEPT !.pc = "try", !.attempt = @ + 1]]
    /\ UNCHANGED <<cb, cbNow, cbLast, streak, admitted, httpVars, cacheVars, pollVars, trackVars, clientVars, walVars, queueVars, extVars>>

\* The context was cancelled during the sleep: return without a report.
BackoffCancelled(r) ==
    /\ req[r].pc = "backoff"
    /\ req' = [req EXCEPT ![r] = [@ EXCEPT !.pc = "done", !.err = "CANCELLED"]]
    /\ UNCHANGED <<cb, cbNow, cbLast, streak, admitted, httpVars, cacheVars, pollVars, trackVars, clientVars, walVars, queueVars, extVars>>

\* The exported methods, called on the breaker itself.
CallAllow ==
    /\ LET a == Allow(cb, cbNow)
       IN /\ cb' = a.cb
          /\ cbLast' = Call("allow", 0, a.ok)
    /\ UNCHANGED <<cbNow, req, streak, admitted, httpVars, cacheVars, pollVars, trackVars, clientVars, walVars, queueVars, extVars>>

CallRecordSuccess ==
    /\ cb' = RecordSuccess(cb)
    /\ cbLast' = Call("record_success", 0, TRUE)
    /\ streak' = 0
    /\ UNCHANGED <<cbNow, req, admitted, httpVars, cacheVars, pollVars, trackVars, clientVars, walVars, queueVars, extVars>>

CallRecordFailure ==
    /\ cb' = RecordFailure(cb, cbNow)
    /\ cbLast' = Call("record_failure", 0, TRUE)
    /\ streak' = StreakUp
    /\ UNCHANGED <<cbNow, req, admitted, httpVars, cacheVars, pollVars, trackVars, clientVars, walVars, queueVars, extVars>>

CallReset ==
    /\ cb' = Reset(cb)
    /\ cbLast' = Call("reset", 0, TRUE)
    /\ streak' = 0
    /\ UNCHANGED <<cbNow, req, admitted, httpVars, cacheVars, pollVars, trackVars, clientVars, walVars, queueVars, extVars>>

\* A breaker from NewCircuitBreaker with a configuration of positive
\* thresholds; ResetTimeout and HalfOpenMaxAllowed may be zero.
InitCB ==
    /\ WalInit /\ QueueInit /\ epRunning = FALSE
    /\ \E ft \in 1..MaxThreshold, st \in 1..MaxThreshold,
          rt \in 0..MaxResetTimeout, hm \in 0..MaxHalfOpen :
            BreakerInit(CircuitBreakerConfig(ft, st, rt, hm))
    /\ HttpInit(DefaultHTTPClientConfig)
    /\ CacheInit(DefaultCacheConfig)
    /\ PollInit(TestPollingConfig)
    /\ TrackInit(DefaultEventQueueConfig, 0)
    /\ ClientInit(DefaultOptions)
    /\ ExtInit

NextCB ==
    \/ ClockTick
    \/ \E r \in Requests : RequestBegin(r)
    \/ \E r \in Requests : DoRequestOk(r)
    \/ \E r \in Requests : DoRequestFatal(r)
    \/ \E r \in Requests : DoRequestRetryable(r)
    \/ \E r \in Requests : BackoffDone(r)
    \/ \E r \in Requests : BackoffCancelled(r)
    \/ CallAllow
    \/ CallRecordSuccess
    \/ CallRecordFailure
    \/ CallReset

SpecCB == InitCB /\ [][NextCB]_vars

(***************************************************************************)
(* Claims about the circuit breaker (SpecCB)                               *)
(***************************************************************************)
Blocked(call) == call.stateBefore = CircuitOpen /\ ~call.elapsed

\* C9: starting CLOSED, the FailureThreshold-th consecutive RecordFailure (no
\* success in between) leaves the breaker OPEN and no earlier one does; and
\* while the breaker is OPEN and ResetTimeout has not elapsed since the last
\* failure, Allow returns false, the breaker stays OPEN, and a request
\* returns the circuit-open error without a single transport call.
C9_OpensAtThresholdThenFailsFast ==
    /\ cb.state = CircuitClosed => streak < cb.config.FailureThreshold
    /\ (cbLast.op = "record_failure" /\ cbLast.stateBefore = CircuitClosed)
          => IF streak = cb.config.FailureThreshold
             THEN cb.state = CircuitOpen
             ELSE cb.state = CircuitClosed /\ cb.failures = streak
    /\ (cbLast.op \in {"allow", "request"} /\ Blocked(cbLast))
          => /\ ~cbLast.ok
             /\ cb.state = CircuitOpen
             /\ cbLast.op = "request"
                   => /\ req[cbLast.r].err = "CIRCUIT_OPEN"
                      /\ req[cbLast.r].calls = 0
                      /\ req[cbLast.r].pc = "done"

C9_Witness ==
    /\ cbLast.op = "request"
    /\ Blocked(cbLast)
    /\ cb.state = CircuitOpen
    /\ cb.config.FailureThreshold = MaxThreshold
    /\ streak = MaxThreshold
    /\ req[cbLast.r].err = "CIRCUIT_OPEN"

\* C10: when the breaker is OPEN and ResetTimeout has elapsed since the last
\* failure, the next Allow returns true and leaves the breaker HALF_OPEN,
\* whatever configuration the breaker was constructed with.
C10_AllowAfterTimeoutAdmits ==
    (cbLast.op \in {"allow", "request"} /\ cbLast.stateBefore = CircuitOpen
        /\ cbLast.elapsed)
      => cbLast.ok /\ cb.state = CircuitHalfOpen

\* C11: in HALF_OPEN the SuccessThreshold-th RecordSuccess since the breaker
\* became HALF_OPEN closes it and no earlier one does; a RecordFailure in
\* HALF_OPEN opens it at once with failures and successes zero and
\* lastFailureTime set to the time of the call.
C11_HalfOpenOutcomes ==
    [][/\ (cb.state # CircuitHalfOpen /\ cb'.state = CircuitHalfOpen)
              => cb'.successes = 0
       /\ cb'.state = CircuitHalfOpen => cb'.successes < cb.config.SuccessThreshold
       /\ (cb.state = CircuitHalfOpen /\ cb' # cb /\ cbLast'.op = "record_success")
              => /\ cb'.state = IF cb.successes + 1 = cb.config.SuccessThreshold
                                THEN CircuitClosed ELSE CircuitHalfOpen
                 /\ cb'.state = CircuitHalfOpen => cb'.successes = cb.successes + 1
       /\ (cb.state = CircuitHalfOpen /\ cb' # cb /\ cbLast'.op = "record_failure")
              => /\ cb'.state = CircuitOpen
                 /\ cb'.failures = 0
                 /\ cb'.successes = 0
                 /\ cb'.lastFailureTime = cbNow]_vars

C11_Witness ==
    /\ cbLast.op = "record_success"
    /\ cbLast.stateBefore = CircuitHalfOpen
    /\ cb.state = CircuitClosed
    /\ cb.config.SuccessThreshold = MaxThreshold
    /\ cbNow > 0

(***************************************************************************)
(* Callers that keep the protocol of HTTPClient.request: one Allow, and    *)
(* one RecordSuccess or RecordFailure for every admitted call.             *)
(***************************************************************************)
InFlight == admitted.old + admitted.probe

\* A caller enters request: Allow, and the call is in flight if admitted.
CallerAllow ==
    /\ InFlight < MaxCallers
    /\ LET a == Allow(cb, cbNow)
           kind == IF a.cb.state = CircuitHalfOpen THEN "probe" ELSE "old"
       IN /\ cb' = a.cb
          /\ cbLast' = Call("allow", 0, a.ok)
          /\ admitted' = IF a.ok THEN [admitted EXCEPT ![kind] = @ + 1] ELSE admitted
    /\ UNCHANGED <<cbNow, req, streak, httpVars, cacheVars, pollVars, trackVars, clientVars, walVars, queueVars, extVars>>

\* An admitted call ends with a response.
CallerSuccess(kind) ==
    /\ admitted[kind] > 0
    /\ cb' = RecordSuccess(cb)
    /\ cbLast' = Call("record_success", 0, TRUE)
    /\ streak' = 0
    /\ admitted' = [admitted EXCEPT ![kind] = @ - 1]
    /\ UNCHANGED <<cbNow, req, httpVars, cacheVars, pollVars, trackVars, clientVars, walVars, queueVars, extVars>>

\* An admitted call ends with an error.
CallerFailure(kind) ==
    /\ admitted[kind] > 0
    /\ cb' = RecordFailure(cb, cbNow)
    /\ cbLast' = Call("record_failure", 0, TRUE)
    /\ streak' = StreakUp
    /\ admitted' = [admitted EXCEPT ![kind] = @ - 1]
    /\ UNCHANGED <<cbNow, req, httpVars, cacheVars, pollVars, trackVars, clientVars, walVars, queueVars, extVars>>

NextCallers ==
    \/ ClockTick
    \/ CallerAllow
    \/ \E kind \in {"old", "probe"} : CallerSuccess(kind)
    \/ \E kind \in {"old", "probe"} : CallerFailure(kind)

SpecCallers == InitCB /\ [][NextCallers]_vars

\* C12: the calls admitted while the breaker was HALF_OPEN that have not yet
\* reported an outcome are never more than HalfOpenMaxAllowed.
C12_ProbesWithinLimit ==
    admitted.probe <= cb.config.HalfOpenMaxAllowed

(***************************************************************************)
(* HTTPClient: Get and Post through request, doRequest and the key         *)
(* rotation of postWithKeyRotation.                                        *)
(***************************************************************************)
ErrAuthInvalidKey == "AUTH_INVALID_KEY"

ErrAuthUnauthorized == "AUTH_UNAUTHORIZED"

ErrNetworkError == "NETWORK_ERROR"

ErrNetworkTimeout == "NETWORK_TIMEOUT"

ErrNetworkRetryLimit == "NETWORK_RETRY_LIMIT"

ErrEvalFlagNotFound == "EVAL_FLAG_NOT_FOUND"

ErrCircuitOpen == "CIRCUIT_OPEN"

NewError(code) == [code |-> code, cause |-> "none"]

\* The cause is kept as the code of the wrapped error, or "transport" for an
\* error of the standard library.
NewErrorWithCause(code, cause) == [code |-> code, cause |-> cause]

NetworkError(code, cause) == NewErrorWithCause(code, cause)

\* ctx.Err(): not a FlagKitError.
ContextError == [code |-> "context canceled", cause |-> "none"]

handleErrorResponse(statusCode) ==
    CASE statusCode = 401 -> NewError(ErrAuthUnauthorized)
      [] statusCode = 403 -> NewError(ErrAuthInvalidKey)
      [] statusCode = 404 -> NewError(ErrEvalFlagNotFound)
      [] statusCode = 429 -> NewError(ErrNetworkRetryLimit)
      [] statusCode \in {502, 503, 504} -> NewError(ErrNetworkError)
      [] OTHER -> NewError(ErrNetworkError)

\* What the server answers to one transport call; 0 stands for client.Do
\* returning an error instead of a response.
Statuses == {0, 200, 400, 401, 403, 404, 429, 503}

\* The error doRequest returns for an outcome of the transport call.
doRequest(status) ==
    IF status = 0 THEN NewErrorWithCause(ErrNetworkError, "transport")
    ELSE IF status >= 400 THEN handleErrorResponse(status)
    ELSE NoError

isRetryable(err) == err.code \in {ErrNetworkError, ErrNetworkTimeout}

rotateToSecondaryKeyAlways(h, now) ==
    IF h.secondaryAPIKey = "" THEN [hc |-> h, ok |-> FALSE]
    ELSE [hc |-> [h EXCEPT !.currentAPIKey = h.secondaryAPIKey,
                           !.keyRotationTimestamp = TimeAt(now),
                           !.rotations = IF @ < 2 THEN @ + 1 ELSE @],
          ok |-> TRUE]

rotateToSecondaryKey(h, now) ==
    IF h.secondaryAPIKey = "" THEN [hc |-> h, ok |-> FALSE]
    ELSE IF h.currentAPIKey = h.secondaryAPIKey THEN [hc |-> h, ok |-> FALSE]
    ELSE [hc |-> [h EXCEPT !.currentAPIKey = h.secondaryAPIKey,
                           !.keyRotationTimestamp = TimeAt(now),
                           !.rotations = IF @ < 2 THEN @ + 1 ELSE @],
          ok |-> TRUE]

Methods == {"GET", "POST"}

\* The state of a call whose request was admitted / refused by the breaker.
Admitted(c) ==
    [c EXCEPT !.pc = "try", !.attempt = 1, !.calls = 0, !.last = 0, !.key = "",
              !.seen = {}, !.reports = 0, !.err = NoError]

Refused(c) ==
    [c EXCEPT !.pc = "done", !.attempt = 0, !.calls = 0, !.last = 0, !.key = "",
              !.seen = {}, !.reports = 0, !.err = NewError(ErrCircuitOpen)]

\* Get / Post up to the first doRequest of request: Allow is consulted once.
HttpBegin(method) ==
    /\ httpCall.pc \in {"idle", "done"}
    /\ LET a == Allow(cb, cbNow)
           c == [CallIdle EXCEPT !.method = method]
       IN /\ cb' = a.cb
          /\ cbLast' = Call("request", 1, a.ok)
          /\ httpCall' = IF a.ok THEN Admitted(c) ELSE Refused(c)
    /\ UNCHANGED <<hc, cbNow, req, streak, admitted, cacheVars, pollVars, trackVars, clientVars, walVars, queueVars, extVars>>

\* One doRequest with the current key and what request does with its result,
\* up to the backoff sleep or its return.  A POST whose first request returns
\* AUTH_UNAUTHORIZED or AUTH_INVALID_KEY goes on in postWithKeyRotation.
HttpResponse(status) ==
    /\ httpCall.pc = "try"
    /\ LET err == doRequest(status)
           c == [httpCall EXCEPT !.calls = @ + 1, !.last = status,
                                 !.key = hc.currentAPIKey,
                                 !.seen = @ \cup {status}]
       IN IF err = NoError
          THEN /\ cb' = RecordSuccess(cb)
               /\ cbLast' = Call("record_success", 1, TRUE)
               /\ streak' = 0
               /\ httpCall' = [c EXCEPT !.pc = "done"]
          ELSE IF ~isRetryable(err)
          THEN /\ cb' = RecordFailure(cb, cbNow)
               /\ cbLast' = Call("record_failure", 1, TRUE)
               /\ streak' = StreakUp
               /\ httpCall' =
                    IF c.phase = 1 /\ err.code \in {ErrAuthUnauthorized, ErrAuthInvalidKey}
                    THEN [c EXCEPT !.pc = IF c.method = "POST" THEN "rotate" ELSE "done",
                                   !.reports = @ + 1, !.err = err,
                                   !.authStatus = status,
                                   !.authKey = hc.currentAPIKey]
                    ELSE [c EXCEPT !.pc = "done", !.reports = @ + 1, !.err = err]
          ELSE IF c.attempt >= hc.MaxAttempts
          THEN /\ cb' = RecordFailure(cb, cbNow)
               /\ cbLast' = Call("record_failure", 1, TRUE)
               /\ streak' = StreakUp
               /\ httpCall' = [c EXCEPT !.pc = "done", !.reports = @ + 1,
                                        !.err = NetworkError(ErrNetworkRetryLimit, err.code)]
          ELSE /\ httpCall' = [c EXCEPT !.pc = "backoff", !.err = err]
               /\ UNCHANGED <<cb, cbLast, streak>>
    /\ UNCHANGED <<hc, cbNow, req, admitted, cacheVars, pollVars, trackVars, clientVars, walVars, queueVars, extVars>>

\* postWithKeyRotation after an authentication error of the first request:
\* rotate, and if that succeeded call request again, which starts at Allow.
PostRotate ==
    /\ httpCall.pc = "rotate"
    /\ LET rot == IF hc.secondaryAPIKey # ""
                  THEN rotateToSecondaryKey(hc, cbNow)
                  ELSE [hc |-> hc, ok |-> FALSE]
       IN /\ hc' = rot.hc
          /\ IF rot.ok
             THEN LET a == Allow(cb, cbNow)
                      c == [httpCall EXCEPT !.phase = 2]
                  IN /\ cb' = a.cb
                     /\ cbLast' = Call("request", 1, a.ok)
                     /\ httpCall' = IF a.ok THEN Admitted(c) ELSE Refused(c)
             ELSE /\ httpCall' = [httpCall EXCEPT !.pc = "done"]
                  /\ UNCHANGED <<cb, cbLast>>
    /\ UNCHANGED <<cbNow, req, streak, admitted, cacheVars, pollVars, trackVars, clientVars, walVars, queueVars, extVars>>

\* time.After(delay) fired: the next attempt.
HttpBackoffDone ==
    /\ httpCall.pc = "backoff"
    /\ httpCall' = [httpCall EXCEPT !.pc = "try", !.attempt = @ + 1]
    /\ UNCHANGED <<hc, cbVars, cacheVars, pollVars, trackVars, clientVars, walVars, queueVars, extVars>>

\* ctx.Done() during the sleep: request returns ctx.Err() and reports nothing.
HttpBackoffCancelled ==
    /\ httpCall.pc = "backoff"
    /\ httpCall' = [httpCall EXCEPT !.pc = "done", !.err = ContextError]
    /\ UNCHANGED <<hc, cbVars, cacheVars, pollVars, trackVars, clientVars, walVars, queueVars, extVars>>

\* A client from NewHTTPClient, with or without a secondary key.
InitHttp ==
    /\ WalInit /\ QueueInit /\ epRunning = FALSE
    /\ \E ft \in 1..MaxThreshold, rt \in 0..MaxResetTimeout :
          BreakerInit(CircuitBreakerConfig(ft, 1, rt, 1))
    /\ \E secondary \in {"", SecondaryKey}, ma \in 1..MaxAttempts :
          HttpInit(HTTPClientConfig(PrimaryKey, secondary, ma))
    /\ CacheInit(DefaultCacheConfig)
    /\ PollInit(TestPollingConfig)
    /\ TrackInit(DefaultEventQueueConfig, 0)
    /\ ClientInit(DefaultOptions)
    /\ ExtInit

NextHttp ==
    \/ ClockTick
    \/ \E method \in Methods : HttpBegin(method)
    \/ \E status \in Statuses : HttpResponse(status)
    \/ PostRotate
    \/ HttpBackoffDone
    \/ HttpBackoffCancelled

SpecHttp == InitHttp /\ [][NextHttp]_vars

(***************************************************************************)
(* Claims about the retry loop and the key rotation.                       *)
(***************************************************************************)
\* The step is one transport call of the request in progress.
TransportCall == httpCall.pc = "try" /\ httpCall'.calls = httpCall.calls + 1

\* The statuses the specification lists as recoverable: transport errors,
\* 5xx and 429.
RecoverableStatus(status) == status = 0 \/ status = 429 \/ status >= 500

\* C13: a transport call answered 429 while attempts remain leaves the
\* request in its backoff sleep, from which it is retried.
C13_TooManyRequestsIsRetried ==
    [][(TransportCall /\ httpCall'.last = 429 /\ httpCall.attempt < hc.MaxAttempts)
          => httpCall'.pc = "backoff"]_vars

\* C14: a transport call answered with a 4xx other than 429 ends the retry
\* loop: request returns (a POST going on to its key rotation), with no
\* backoff and no further attempt.
C14_ClientErrorsStopTheLoop ==
    [][(TransportCall /\ httpCall'.last \in 400..499 /\ httpCall'.last # 429)
          => httpCall'.pc \in {"done", "rotate"}]_vars

\* C15: a request that has made all MaxAttempts attempts of which every one
\* failed with a recoverable error has called the transport MaxAttempts
\* times, has reported exactly one failure to the breaker, and returns
\* NETWORK_RETRY_LIMIT wrapping the error of the last attempt.
C15_ExhaustedRetriesWrapLastCause ==
    (/\ httpCall.pc = "done"
     /\ httpCall.attempt = hc.MaxAttempts
     /\ httpCall.seen # {}
     /\ \A status \in httpCall.seen : RecoverableStatus(status))
        => /\ httpCall.calls = hc.MaxAttempts
           /\ httpCall.reports = 1
           /\ httpCall.err = NetworkError(ErrNetworkRetryLimit,
                                          doRequest(httpCall.last).code)

\* The first request of the finished call ended in 401/403 sent with the
\* primary key, and the client has a secondary key.
AuthFailedOnPrimary ==
    /\ httpCall.pc = "done"
    /\ httpCall.authStatus \in {401, 403}
    /\ httpCall.authKey = hc.apiKey
    /\ hc.secondaryAPIKey # ""

\* C16: a POST whose request with the primary key returned 401/403, with a
\* secondary key configured, ends with the secondary key active, the
\* rotation timestamp set, and exactly one transport call made with the
\* secondary key, whose outcome is what the call returns.
C16_PostResentOnceWithSecondary ==
    (AuthFailedOnPrimary /\ httpCall.method = "POST")
        => /\ hc.currentAPIKey = hc.secondaryAPIKey
           /\ ~hc.keyRotationTimestamp.nil
           /\ httpCall.phase = 2
           /\ httpCall.calls = 1
           /\ httpCall.key = hc.secondaryAPIKey
           /\ httpCall.err = doRequest(httpCall.last)

\* C17: a GET whose request with the primary key returned 401/403, with a
\* secondary key configured, has switched to the secondary key and has been
\* sent again.
C17_GetRotatesLikePost ==
    (AuthFailedOnPrimary /\ httpCall.method = "GET")
        => /\ hc.currentAPIKey = hc.secondaryAPIKey
           /\ httpCall.phase = 2

\* C18: the active key only ever changes from the primary to the secondary,
\* this happens at most once, and every transport call after it is made
\* with the secondary key.
C18_KeyRotatesOnceOneWay ==
    [][/\ hc'.currentAPIKey # hc.currentAPIKey
            => /\ hc.currentAPIKey = hc.apiKey
               /\ hc'.currentAPIKey = hc.secondaryAPIKey
               /\ hc.keyRotationTimestamp.nil
       /\ hc'.rotations <= 1
       /\ (TransportCall /\ hc.rotations > 0)
            => httpCall'.key = hc.secondaryAPIKey]_vars

\* After the rotation a later POST was answered 401 with the secondary key
\* and returned without a second rotation.
C18_Witness ==
    /\ hc.rotations = 1
    /\ hc.currentAPIKey = SecondaryKey
    /\ httpCall.method = "POST" /\ httpCall.phase = 1 /\ httpCall.pc = "done"
    /\ httpCall.last = 401 /\ httpCall.key = SecondaryKey

(***************************************************************************)
(* Cache: every method runs under the cache's mutex, so each is one step;  *)
(* SetMany is a loop of Set calls that other callers interleave with.      *)
(***************************************************************************)
MapRemove(m, k) == [x \in (DOMAIN m) \ {k} |-> m[x]]

\* The keys the loop of evictOldest can end on: an entry no other entry is
\* older than, whichever the map's iteration order puts first; the empty
\* string when there is no entry.
OldestKeys(entries) ==
    IF DOMAIN entries = {} THEN {""}
    ELSE {k \in DOMAIN entries :
            \A j \in DOMAIN entries : entries[k].FetchedAt <= entries[j].FetchedAt}

evictOldest(entries, oldestKey) ==
    IF oldestKey # "" THEN MapRemove(entries, oldestKey) ELSE entries

\* Cache.Set with the ttl argument given; oldestKey is the key evictOldest
\* ends on if it runs.
Set(c, key, flag, cacheTTL, now, oldestKey) ==
    LET kept == IF Cardinality(DOMAIN c.entries) >= c.maxSize
                   /\ key \notin DOMAIN c.entries
                THEN evictOldest(c.entries, oldestKey)
                ELSE c.entries
    IN [c EXCEPT !.entries = MapPut(kept, key, CacheEntry(flag, now, now + cacheTTL))]

\* Cache.Get: the result and what the call read.
Get(c, key, now) ==
    IF key \notin DOMAIN c.entries THEN NilFlag
    ELSE IF now > c.entries[key].ExpiresAt THEN NilFlag
    ELSE FlagPtr(c.entries[key].Flag)

\* The ttl of a Set call: the variadic argument, or c.ttl without it.
Ttls == 0..MaxTtl

CacheTick ==
    /\ cacheNow < MaxCacheClock
    /\ cacheNow' = cacheNow + 1
    /\ cacheLast' = NoGet
    /\ UNCHANGED <<cache, setMany, cbVars, httpVars, pollVars, trackVars, clientVars, walVars, queueVars, extVars>>

CacheSet(key, value, ttl) ==
    /\ \E oldestKey \in OldestKeys(cache.entries) :
          cache' = Set(cache, key, FlagState(key, value), ttl, cacheNow, oldestKey)
    /\ cacheLast' = NoGet
    /\ UNCHANGED <<cacheNow, setMany, cbVars, httpVars, pollVars, trackVars, clientVars, walVars, queueVars, extVars>>

\* SetMany is called with a list of flags; nothing is stored yet.
CacheSetManyBegin(keys) ==
    /\ setMany = <<>>
    /\ setMany' = keys
    /\ cacheLast' = NoGet
    /\ UNCHANGED <<cache, cacheNow, cbVars, httpVars, pollVars, trackVars, clientVars, walVars, queueVars, extVars>>

\* One iteration of SetMany's loop: Set of the next flag with c.ttl.
CacheSetManyStep ==
    /\ setMany # <<>>
    /\ \E oldestKey \in OldestKeys(cache.entries), value \in FlagValues :
          cache' = Set(cache, Head(setMany), FlagState(Head(setMany), value),
                       cache.ttl, cacheNow, oldestKey)
    /\ setMany' = Tail(setMany)
    /\ cacheLast' = NoGet
    /\ UNCHANGED <<cacheNow, cbVars, httpVars, pollVars, trackVars, clientVars, walVars, queueVars, extVars>>

CacheDelete(key) ==
    /\ key \in DOMAIN cache.entries
    /\ cache' = [cache EXCEPT !.entries = MapRemove(@, key)]
    /\ cacheLast' = NoGet
    /\ UNCHANGED <<cacheNow, setMany, cbVars, httpVars, pollVars, trackVars, clientVars, walVars, queueVars, extVars>>

CacheClear ==
    /\ cache.entries # EmptyMap
    /\ cache' = [cache EXCEPT !.entries = EmptyMap]
    /\ cacheLast' = NoGet
    /\ UNCHANGED <<cacheNow, setMany, cbVars, httpVars, pollVars, trackVars, clientVars, walVars, queueVars, extVars>>

CacheGet(key) ==
    /\ cacheLast' = [op |-> "get", key |-> key,
                     result |-> Get(cache, key, cacheNow)]
    /\ UNCHANGED <<cache, cacheNow, setMany, cbVars, httpVars, pollVars, trackVars, clientVars, walVars, queueVars, extVars>>

\* A cache from NewCache with a positive capacity.
InitCache ==
    /\ WalInit /\ QueueInit /\ epRunning = FALSE
    /\ BreakerInit(DefaultCircuitBreakerConfig)
    /\ HttpInit(DefaultHTTPClientConfig)
    /\ \E ttl \in Ttls, maxSize \in 1..CacheMaxSize :
          CacheInit(CacheConfig(ttl, maxSize))
    /\ PollInit(TestPollingConfig)
    /\ TrackInit(DefaultEventQueueConfig, 0)
    /\ ClientInit(DefaultOptions)
    /\ ExtInit

KeyLists == {<<k>> : k \in CacheKeys} \cup {<<k, j>> : k, j \in CacheKeys}

NextCache ==
    \/ CacheTick
    \/ \E key \in CacheKeys, value \in FlagValues, ttl \in Ttls : CacheSet(key, value, ttl)
    \/ \E keys \in KeyLists : CacheSetManyBegin(keys)
    \/ CacheSetManyStep
    \/ \E key \in CacheKeys : CacheDelete(key)
    \/ CacheClear
    \/ \E key \in CacheKeys : CacheGet(key)

SpecCache == InitCache /\ [][NextCache]_vars

\* C19: the cache never holds more entries than its capacity.
C19_SizeWithinCapacity == Cardinality(DOMAIN cache.entries) <= cache.maxSize

\* C20: Get returns the entry's flag exactly when the key has an entry and
\* the entry is fresh, that is the time of the call is before its ExpiresAt;
\* otherwise it returns nil.  (Read in the state a Get has just left: the
\* cache and the clock are those the call saw.)
C20_GetReturnsFreshOnly ==
    cacheLast.op = "get"
        => cacheLast.result =
             IF /\ cacheLast.key \in DOMAIN cache.entries
                /\ cacheNow < cache.entries[cacheLast.key].ExpiresAt
             THEN FlagPtr(cache.entries[cacheLast.key].Flag)
             ELSE NilFlag

\* C21: a step that stores a new key evicts only if the cache was at
\* capacity, and then removes exactly one entry, one no other entry is older
\* than, so that a full cache stays at its size; a step that replaces the
\* entry of a present key removes nothing.
C21_EvictsExactlyTheOldest ==
    [][LET old == cache.entries
           new == cache'.entries
           removed == DOMAIN old \ DOMAIN new
       IN /\ (DOMAIN new \ DOMAIN old # {})
                => IF Cardinality(DOMAIN old) >= cache.maxSize
                   THEN /\ Cardinality(removed) = 1
                        /\ removed \subseteq OldestKeys(old)
                        /\ Cardinality(DOMAIN new) = Cardinality(DOMAIN old)
                   ELSE removed = {}
          /\ (\E k \in DOMAIN old \cap DOMAIN new : new[k] # old[k])
                => removed = {}]_vars

(***************************************************************************)
(* PollingManager: Start, Stop, OnSuccess, OnError, and the loop of run    *)
(* with poll.  Every section under pm.mu is one step; the steps of a       *)
(* goroutine between them interleave with the other callers.               *)
(***************************************************************************)
\* time.Duration(float64(d) * multiplier): the product, truncated.
Scale(d, multiplier) == (d * multiplier.num) \div multiplier.den

OnSuccess(p) ==
    [p EXCEPT !.consecutiveErrors = 0, !.currentInterval = p.config.Interval]

OnErrorUncapped(p) ==
    [p EXCEPT !.consecutiveErrors = @ + 1,
              !.currentInterval = Scale(p.currentInterval, p.config.BackoffMultiplier)]

OnError(p) ==
    LET newInterval == Scale(p.currentInterval, p.config.BackoffMultiplier)
    IN [p EXCEPT !.consecutiveErrors = @ + 1,
                 !.currentInterval = IF newInterval > p.config.MaxInterval
                                     THEN p.config.MaxInterval
                                     ELSE newInterval]

\* What onPoll can do: Client.refresh reports a success or an error to the
\* manager, or returns without a report (unparsable response); or it panics.
Outcomes == {"success", "error", "silent", "panic"}

pollPanicKills(p, outcome) ==
    CASE outcome = "success" -> [pm |-> OnSuccess(p), returns |-> TRUE]
      [] outcome = "error" -> [pm |-> OnError(p), returns |-> TRUE]
      [] outcome = "silent" -> [pm |-> p, returns |-> TRUE]
      [] outcome = "panic" -> [pm |-> p, returns |-> FALSE]

\* poll from the call of onPoll on: the manager afterwards, and whether poll
\* returns to run (a panic that is not recovered ends the goroutine).
poll(p, outcome) ==
    CASE outcome = "success" -> [pm |-> OnSuccess(p), returns |-> TRUE]
      [] outcome = "error" -> [pm |-> OnError(p), returns |-> TRUE]
      [] outcome = "silent" -> [pm |-> p, returns |-> TRUE]
      [] outcome = "panic" -> [pm |-> OnError(p), returns |-> TRUE]

Alive(w) == pollers[w].pc \notin {"none", "dead"}

\* Start: a no-op while running, else a fresh stop channel and go pm.run().
PmStart ==
    /\ IF pm.running
       THEN UNCHANGED <<pm, pollers>>
       ELSE /\ \E w \in PollerIds :
                 /\ pollers[w].pc = "none"
                 /\ \A v \in PollerIds : v < w => pollers[v].pc # "none"
                 /\ pollers' = [pollers EXCEPT ![w] = [pc |-> "loop", ch |-> 0]]
                 /\ pm' = [pm EXCEPT !.running = TRUE, !.stopCh = w]
    /\ pollLast' = [op |-> "start", w |-> 0]
    /\ UNCHANGED <<closedCh, cbVars, httpVars, cacheVars, trackVars,
                   clientVars, walVars, queueVars, extVars>>

\* Stop: a no-op unless running, else running = false and close(stopCh).
PmStop ==
    /\ IF pm.running
       THEN /\ pm' = [pm EXCEPT !.running = FALSE]
            /\ closedCh' = closedCh \cup {pm.stopCh}
       ELSE UNCHANGED <<pm, closedCh>>
    /\ pollLast' = [op |-> "stop", w |-> 0]
    /\ UNCHANGED <<pollers, cbVars, httpVars, cacheVars, trackVars,
                   clientVars, walVars, queueVars, extVars>>

\* OnSuccess / OnError called on the manager from outside a poll.
PmOnSuccess ==
    /\ pm' = OnSuccess(pm)
    /\ pollLast' = [op |-> "on_success", w |-> 0]
    /\ UNCHANGED <<pollers, closedCh, cbVars, httpVars, cacheVars, trackVars,
                   clientVars, walVars, queueVars, extVars>>

PmOnError ==
    /\ pm.consecutiveErrors < MaxErrors
    /\ pm' = OnError(pm)
    /\ pollLast' = [op |-> "on_error", w |-> 0]
    /\ UNCHANGED <<pollers, closedCh, cbVars, httpVars, cacheVars, trackVars,
                   clientVars, walVars, queueVars, extVars>>

\* run, top of the loop: getNextDelay, then the select starts and reads
\* pm.stopCh (without the mutex) for its first case.
RunSelect(w) ==
    /\ pollers[w].pc = "loop"
    /\ pollers' = [pollers EXCEPT ![w] = [pc |-> "select", ch |-> pm.stopCh]]
    /\ pollLast' = [op |-> "select", w |-> w]
    /\ UNCHANGED <<pm, closedCh, cbVars, httpVars, cacheVars, trackVars,
                   clientVars, walVars, queueVars, extVars>>

\* case <-pm.stopCh: the channel the select holds is closed; run returns.
RunStopped(w) ==
    /\ pollers[w].pc = "select"
    /\ pollers[w].ch \in closedCh
    /\ pollers' = [pollers EXCEPT ![w].pc = "dead"]
    /\ pollLast' = [op |-> "return", w |-> w]
    /\ UNCHANGED <<pm, closedCh, cbVars, httpVars, cacheVars, trackVars,
                   clientVars, walVars, queueVars, extVars>>

\* case <-time.After(delay): poll is called and checks running under the
\* mutex; not running, it returns to the loop.
RunTimer(w) ==
    /\ pollers[w].pc = "select"
    /\ pollers' = [pollers EXCEPT ![w].pc = IF pm.running THEN "checked" ELSE "loop"]
    /\ pollLast' = [op |-> "timer", w |-> w]
    /\ UNCHANGED <<pm, closedCh, cbVars, httpVars, cacheVars, trackVars,
                   clientVars, walVars, queueVars, extVars>>

\* poll has released the mutex and calls onPoll: the action starts.
PollBegin(w) ==
    /\ pollers[w].pc = "checked"
    /\ pollers' = [pollers EXCEPT ![w].pc = "action"]
    /\ pollLast' = [op |-> "begin", w |-> w]
    /\ UNCHANGED <<pm, closedCh, cbVars, httpVars, cacheVars, trackVars,
                   clientVars, walVars, queueVars, extVars>>

\* onPoll ends: with its report to the manager, or by a panic that poll's
\* deferred function recovers.
PollEnd(w, outcome) ==
    /\ pollers[w].pc = "action"
    /\ outcome \in {"error", "panic"} => pm.consecutiveErrors < MaxErrors
    /\ LET r == poll(pm, outcome)
       IN /\ pm' = r.pm
          /\ pollers' = [pollers EXCEPT ![w].pc = IF r.returns THEN "loop" ELSE "dead"]
    /\ pollLast' = [op |-> outcome, w |-> w]
    /\ UNCHANGED <<closedCh, cbVars, httpVars, cacheVars, trackVars,
                   clientVars, walVars, queueVars, extVars>>

\* A manager as the polling tests build it.
InitPolling ==
    /\ WalInit /\ QueueInit /\ epRunning = FALSE
    /\ BreakerInit(DefaultCircuitBreakerConfig)
    /\ HttpInit(DefaultHTTPClientConfig)
    /\ CacheInit(DefaultCacheConfig)
    /\ PollInit(TestPollingConfig)
    /\ TrackInit(DefaultEventQueueConfig, 0)
    /\ ClientInit(DefaultOptions)
    /\ ExtInit

NextPolling ==
    \/ PmStart
    \/ PmStop
    \/ PmOnSuccess
    \/ PmOnError
    \/ \E w \in PollerIds : RunSelect(w)
    \/ \E w \in PollerIds : RunStopped(w)
    \/ \E w \in PollerIds : RunTimer(w)
    \/ \E w \in PollerIds : PollBegin(w)
    \/ \E w \in PollerIds, outcome \in Outcomes : PollEnd(w, outcome)

SpecPolling == InitPolling /\ [][NextPolling]_vars

\* C22: no two polling workers wait in the loop of run on a stop channel
\* that is still open.
C22_AtMostOneWorker ==
    Cardinality({w \in PollerIds :
                    pollers[w].pc = "select" /\ pollers[w].ch \notin closedCh}) <= 1

(***************************************************************************)
(* The backoff arithmetic alone, for the configurations                    *)
(* NewPollingManager accepts: it checks none of the fields.                *)
(***************************************************************************)
Multipliers == {Multiplier(1, 2), Multiplier(1, 1), Multiplier(3, 2), Multiplier(2, 1)}

InitBackoff ==
    /\ WalInit /\ QueueInit /\ epRunning = FALSE
    /\ BreakerInit(DefaultCircuitBreakerConfig)
    /\ HttpInit(DefaultHTTPClientConfig)
    /\ CacheInit(DefaultCacheConfig)
    /\ \E interval \in 1..MaxPollInterval, multiplier \in Multipliers,
          maxInterval \in 0..MaxPollInterval :
            PollInit(PollingConfig(interval, multiplier, maxInterval))
    /\ TrackInit(DefaultEventQueueConfig, 0)
    /\ ClientInit(DefaultOptions)
    /\ ExtInit

NextBackoff ==
    \/ PmOnSuccess
    \/ PmOnError

SpecBackoff == InitBackoff /\ [][NextBackoff]_vars

\* The step is a call of OnError.
IsOnError == pm'.consecutiveErrors = pm.consecutiveErrors + 1

\* C23: OnError sets the interval to the smaller of MaxInterval and the
\* interval times the multiplier (to the whole tick); with Interval 100 ms,
\* multiplier 2 and MaxInterval 500 ms, the intervals after one to six
\* consecutive failures are 200, 400, 500, 500, 500, 500 ms.
C23_BackoffIsCappedProduct ==
    [][/\ IsOnError =>
            LET m == pm.config.BackoffMultiplier
                product == pm.currentInterval * m.num
            IN IF product > pm.config.MaxInterval * m.den
               THEN pm'.currentInterval = pm.config.MaxInterval
               ELSE /\ pm'.currentInterval * m.den <= product
                    /\ product < (pm'.currentInterval + 1) * m.den
       /\ (/\ pm'.config = PollingConfig(1, Multiplier(2, 1), 5)
           /\ pm'.consecutiveErrors \in 1..6)
            => pm'.currentInterval = <<2, 4, 5, 5, 5, 5>>[pm'.consecutiveErrors]]_vars

\* Six failures in a row with the configuration of the example.
C23_Witness ==
    /\ pm.config = PollingConfig(1, Multiplier(2, 1), 5)
    /\ pm.consecutiveErrors = 6
    /\ pm.currentInterval = 5

\* C24: OnError never makes the interval shorter.
C24_BackoffNeverDecreases ==
    [][IsOnError => pm'.currentInterval >= pm.currentInterval]_vars

\* C25: a poll action that panics counts as one more consecutive error and
\* lengthens the interval as OnError does, and the goroutine that ran it is
\* back at the top of run's loop, from where it polls again.
C25_PanicIsAFailure ==
    [][pollLast'.op = "panic" =>
          /\ pm'.consecutiveErrors = pm.consecutiveErrors + 1
          /\ pm'.currentInterval =
                IF 2 * pm.currentInterval > pm.config.MaxInterval
                THEN pm.config.MaxInterval ELSE 2 * pm.currentInterval
          /\ pm'.currentInterval >= pm.currentInterval
          /\ pollers'[pollLast'.w].pc = "loop"]_vars

\* A worker has polled again after a panic of its previous action.
C25_Witness ==
    /\ pollLast.op = "panic"
    /\ pollers[pollLast.w].pc = "loop"
    /\ pm.running
    /\ pm.consecutiveErrors = 2
    /\ pm.currentInterval = 4

\* C26: while the manager is stopped no worker starts a poll action.
C26_NoActionAfterStop ==
    [][(\E w \in PollerIds : pollers[w].pc # "action" /\ pollers'[w].pc = "action")
          => pm.running]_vars


\* C32: a request that Allow admitted reports one outcome to the breaker
\* (RecordSuccess or RecordFailure) in the step in which it returns.
C32_AdmittedRequestReports ==
    [][\A r \in Requests :
          (req[r].pc \in {"try", "backoff"} /\ req'[r].pc = "done")
             => /\ cbLast'.op \in {"record_success", "record_failure"}
                /\ cbLast'.r = r]_vars

\* Client.refresh, by what the server call gave: what it reports to the
\* polling manager before it returns.
RefreshResults == {"ok", "transportError", "parseError"}

refresh(result) ==
    CASE result = "ok" -> "success"
      [] result = "transportError" -> "error"
      [] result = "parseError" -> "silent"

\* C35: a poll whose refresh failed, in the transport or in the parse of
\* the response, is counted by OnError (one more consecutive error, the
\* interval backed off) and the worker goes on with its loop.
C35_FailedRefreshBacksOff ==
    [][(pollLast'.op \in {refresh("transportError"), refresh("parseError")})
          => /\ pm' = OnError(pm)
             /\ pollers'[pollLast'.w].pc = "loop"]_vars

(***************************************************************************)
(* The event queue on its own: Track, TrackWithContext, Flush and          *)
(* RecoverEvents against a persister, with the clock free to stand still   *)
(* between two readings.                                                   *)
(***************************************************************************)
\* Track and TrackWithContext, the queue: a full queue is left as it is.
TrackUnbounded(q, maxSize, event) == Append(q, event)

Enqueue(q, maxSize, event) ==
    IF Len(q) >= maxSize THEN q ELSE Append(q, event)

\* The persister: Persist and the three marks.
EqPersist(wal, event) == MapPut(wal, event.id, event)

EqMark(wal, ids, status) ==
    [id \in DOMAIN wal |-> IF id \in ids THEN [wal[id] EXCEPT !.status = status]
                           ELSE wal[id]]

\* Recover: the live events, their status reset to pending, in no order.
EqRecover(wal) ==
    {[wal[id] EXCEPT !.status = EventStatusPending] :
        id \in {i \in DOMAIN wal : IsLive(wal[i])}}

\* The clock moves on.
EqTick ==
    /\ eqNow < MaxNano
    /\ eqNow' = eqNow + 1
    /\ eqLast' = [NoTrack EXCEPT !.recovered = eqLast.recovered]
    /\ UNCHANGED <<eq, eqWal, eqFlush, issued>>
    /\ UNCHANGED <<cbVars, httpVars, cacheVars, pollVars, clientVars, walVars, queueVars, extVars>>

\* Track (context 0) and TrackWithContext (context 1): drop on a full
\* queue; otherwise stamp, persist, enqueue and signal a full batch.
EqTrack(context) ==
    LET full == Len(eq.events) >= eq.config.MaxSize
        eventID == generateEventID(eqNow)
        queued == Enqueue(eq.events, eq.config.MaxSize,
                          QEvent(eventID, "custom", eventID, context, eqNow))
    IN /\ full \/ Len(issued) < MaxIssued
       /\ eq' = [eq EXCEPT !.events = queued,
                           !.flushCh = IF full THEN @
                                       ELSE (@ \/ Len(queued) >= eq.config.BatchSize)]
       /\ eqWal' = IF full THEN eqWal
                   ELSE EqPersist(eqWal, PersistedEvent(eventID, "custom", eventID,
                                        context, eqNow, EventStatusPending, 0))
       /\ issued' = IF full THEN issued ELSE Append(issued, eventID)
       /\ eqLast' = [op |-> IF context = 0 THEN "track" ELSE "trackWithContext",
                     full |-> full, recovered |-> eqLast.recovered]
       /\ UNCHANGED <<eqNow, eqFlush>>
       /\ UNCHANGED <<cbVars, httpVars, cacheVars, pollVars, clientVars, walVars, queueVars, extVars>>

\* Flush, under the lock: copy the queue and clear it.
EqFlushCopy ==
    /\ eqFlush.pc = "idle"
    /\ eq.events # <<>>
    /\ eqFlush' = [pc |-> "mark", batch |-> eq.events]
    /\ eq' = [eq EXCEPT !.events = <<>>]
    /\ eqLast' = [NoTrack EXCEPT !.recovered = eqLast.recovered]
    /\ UNCHANGED <<eqWal, eqNow, issued>>
    /\ UNCHANGED <<cbVars, httpVars, cacheVars, pollVars, clientVars, walVars, queueVars, extVars>>

\* sendEvents: MarkSending.
EqMarkSending ==
    /\ eqFlush.pc = "mark"
    /\ eqWal' = EqMark(eqWal, RangeIds(eqFlush.batch), EventStatusSending)
    /\ eqFlush' = [eqFlush EXCEPT !.pc = "post"]
    /\ eqLast' = [NoTrack EXCEPT !.recovered = eqLast.recovered]
    /\ UNCHANGED <<eq, eqNow, issued>>
    /\ UNCHANGED <<cbVars, httpVars, cacheVars, pollVars, clientVars, walVars, queueVars, extVars>>

\* sendEvents: the POST and the mark that follows it; nothing is put back
\* in the queue.
EqPost(ok) ==
    /\ eqFlush.pc = "post"
    /\ eqWal' = EqMark(eqWal, RangeIds(eqFlush.batch),
                       IF ok THEN EventStatusSent ELSE EventStatusFailed)
    /\ eqFlush' = NoFlush
    /\ eqLast' = [NoTrack EXCEPT !.recovered = eqLast.recovered]
    /\ UNCHANGED <<eq, eqNow, issued>>
    /\ UNCHANGED <<cbVars, httpVars, cacheVars, pollVars, clientVars, walVars, queueVars, extVars>>

\* RecoverEvents: what the persister recovers goes to the front of the
\* queue, one event at a time, until the queue is full.  One call per
\* process, at any moment of it.
EqRecoverEvents ==
    /\ ~eqLast.recovered
    /\ EqRecover(eqWal) # {}
    /\ \E order \in Perms(EqRecover(eqWal)) :
          eq' = [eq EXCEPT !.events = RecoverInto(order, eq.events, eq.config.MaxSize)]
    /\ eqLast' = [op |-> "recover", full |-> Len(eq.events) >= eq.config.MaxSize,
                  recovered |-> TRUE]
    /\ UNCHANGED <<eqWal, eqNow, eqFlush, issued>>
    /\ UNCHANGED <<cbVars, httpVars, cacheVars, pollVars, clientVars, walVars, queueVars, extVars>>

\* BatchSize below, at and above a small MaxSize.
BatchSizes == {1, 2}

InitTrack ==
    /\ WalInit /\ QueueInit /\ epRunning = FALSE
    /\ BreakerInit(DefaultCircuitBreakerConfig)
    /\ HttpInit(DefaultHTTPClientConfig)
    /\ CacheInit(DefaultCacheConfig)
    /\ PollInit(TestPollingConfig)
    /\ \E maxSize \in 0..MaxQueue, batchSize \in BatchSizes, old \in 0..MaxOld :
          TrackInit(EventQueueConfig(maxSize, batchSize), old)
    /\ ClientInit(DefaultOptions)
    /\ ExtInit

NextTrack ==
    \/ EqTick
    \/ \E context \in {0, 1} : EqTrack(context)
    \/ EqFlushCopy
    \/ EqMarkSending
    \/ \E ok \in BOOLEAN : EqPost(ok)
    \/ EqRecoverEvents

SpecTrack == InitTrack /\ [][NextTrack]_vars

\* C27: the queue never holds more than MaxSize events, whatever Track,
\* TrackWithContext and RecoverEvents did; and a Track or TrackWithContext
\* that finds the queue full returns having changed neither the queue nor
\* the log (it waits for nothing: it is a single step that is always
\* enabled).
C27_QueueWithinMaxSize ==
    /\ [](Len(eq.events) <= eq.config.MaxSize)
    /\ [][(eqLast'.op \in {"track", "trackWithContext"}
            /\ Len(eq.events) >= eq.config.MaxSize)
              => /\ eq'.events = eq.events
                 /\ eqWal' = eqWal
                 /\ issued' = issued]_vars

C27_Witness ==
    /\ eqLast.op = "track"
    /\ eqLast.full
    /\ eq.config.MaxSize = 2
    /\ Len(eq.events) = 2
    /\ \E i \in 1..2 : eq.events[i].id < 0

\* C28: the ids stamped by one process are pairwise distinct, two events
\* tracked at the same clock reading included.
C28_EventIdsDistinct ==
    \A i, j \in 1..Len(issued) : i # j => issued[i] # issued[j]



(***************************************************************************)
(* Client.Initialize against Client.Close.  c.mu guards only the closed    *)
(* and ready fields, so every call Initialize and Close make on a part of  *)
(* the client is a step of its own.                                        *)
(***************************************************************************)
\* setReady.
setReady(c) == [c EXCEPT !.ready = TRUE]

\* startPolling: nothing when a manager exists; otherwise make one and
\* Start it, which launches its worker.
startPolling(c) ==
    IF c.pollingManager THEN c
    ELSE [c EXCEPT !.pollingManager = TRUE, !.pmRunning = TRUE,
                   !.pollWorkers = @ + 1]

\* EventQueue.Start: nothing when running; otherwise launch the worker.
StartQueue(c) ==
    IF c.eqRunning THEN c
    ELSE [c EXCEPT !.eqRunning = TRUE, !.flushWorkers = @ + 1]

\* PollingManager.Stop and EventQueue.Stop: nothing unless running.
StopPolling(c) == IF c.pollingManager THEN [c EXCEPT !.pmRunning = FALSE] ELSE c

StopEvents(c) == [c EXCEPT !.eqRunning = FALSE]

\* Initialize, first lines: the closed check, then offline mode.
ClientInitialize ==
    /\ initCall = "idle"
    /\ IF client.closed THEN UNCHANGED client /\ initCall' = "failed"
       ELSE IF client.options.Offline
            THEN client' = setReady(client) /\ initCall' = "returned"
            ELSE UNCHANGED client /\ initCall' = "get"
    /\ UNCHANGED <<closeCall, evalLast>>
    /\ UNCHANGED <<cbVars, httpVars, cacheVars, pollVars, trackVars, walVars, queueVars, extVars>>

\* Initialize: the GET of /sdk/init and the parse of its body.
InitGet(outcome) ==
    /\ initCall = "get"
    /\ IF outcome = "ok"
       THEN /\ UNCHANGED client
            /\ initCall' = IF client.options.EnablePolling THEN "startPolling"
                           ELSE "startQueue"
       ELSE client' = setReady(client) /\ initCall' = "failed"
    /\ UNCHANGED <<closeCall, evalLast>>
    /\ UNCHANGED <<cbVars, httpVars, cacheVars, pollVars, trackVars, walVars, queueVars, extVars>>

InitStartPolling ==
    /\ initCall = "startPolling"
    /\ client' = startPolling(client)
    /\ initCall' = "startQueue"
    /\ UNCHANGED <<closeCall, evalLast>>
    /\ UNCHANGED <<cbVars, httpVars, cacheVars, pollVars, trackVars, walVars, queueVars, extVars>>

InitStartQueue ==
    /\ initCall = "startQueue"
    /\ client' = StartQueue(client)
    /\ initCall' = "setReady"
    /\ UNCHANGED <<closeCall, evalLast>>
    /\ UNCHANGED <<cbVars, httpVars, cacheVars, pollVars, trackVars, walVars, queueVars, extVars>>

InitSetReady ==
    /\ initCall = "setReady"
    /\ client' = setReady(client)
    /\ initCall' = "returned"
    /\ UNCHANGED <<closeCall, evalLast>>
    /\ UNCHANGED <<cbVars, httpVars, cacheVars, pollVars, trackVars, walVars, queueVars, extVars>>

\* The call has returned to its caller, who may call Initialize again
\* (WaitForReady does while the client is not ready).
InitReturn ==
    /\ initCall \in {"returned", "failed"}
    /\ initCall' = "idle"
    /\ UNCHANGED <<client, closeCall, evalLast>>
    /\ UNCHANGED <<cbVars, httpVars, cacheVars, pollVars, trackVars, walVars, queueVars, extVars>>

\* Close, first lines: a closed client returns at once (a second Close).
ClientClose ==
    /\ closeCall \in {"idle", "returned"}
    /\ IF client.closed THEN UNCHANGED client /\ closeCall' = "returned"
       ELSE client' = [client EXCEPT !.closed = TRUE] /\ closeCall' = "stopPolling"
    /\ UNCHANGED <<initCall, evalLast>>
    /\ UNCHANGED <<cbVars, httpVars, cacheVars, pollVars, trackVars, walVars, queueVars, extVars>>

CloseStopPolling ==
    /\ closeCall = "stopPolling"
    /\ client' = StopPolling(client)
    /\ closeCall' = "stopEvents"
    /\ UNCHANGED <<initCall, evalLast>>
    /\ UNCHANGED <<cbVars, httpVars, cacheVars, pollVars, trackVars, walVars, queueVars, extVars>>

CloseStopEvents ==
    /\ closeCall = "stopEvents"
    /\ client' = StopEvents(client)
    /\ closeCall' = "closeRest"
    /\ UNCHANGED <<initCall, evalLast>>
    /\ UNCHANGED <<cbVars, httpVars, cacheVars, pollVars, trackVars, walVars, queueVars, extVars>>

\* Close: the persistence and the HTTP client are closed, Close returns.
CloseRest ==
    /\ closeCall = "closeRest"
    /\ closeCall' = "returned"
    /\ UNCHANGED <<client, initCall, evalLast>>
    /\ UNCHANGED <<cbVars, httpVars, cacheVars, pollVars, trackVars, walVars, queueVars, extVars>>

\* A worker finds its stop channel closed and returns.
PollWorkerExit ==
    /\ client.pollWorkers > 0
    /\ ~client.pmRunning
    /\ client' = [client EXCEPT !.pollWorkers = @ - 1]
    /\ UNCHANGED <<initCall, closeCall, evalLast>>
    /\ UNCHANGED <<cbVars, httpVars, cacheVars, pollVars, trackVars, walVars, queueVars, extVars>>

FlushWorkerExit ==
    /\ client.flushWorkers > 0
    /\ ~client.eqRunning
    /\ client' = [client EXCEPT !.flushWorkers = @ - 1]
    /\ UNCHANGED <<initCall, closeCall, evalLast>>
    /\ UNCHANGED <<cbVars, httpVars, cacheVars, pollVars, trackVars, walVars, queueVars, extVars>>

InitClient ==
    /\ WalInit /\ QueueInit /\ epRunning = FALSE
    /\ BreakerInit(DefaultCircuitBreakerConfig)
    /\ HttpInit(DefaultHTTPClientConfig)
    /\ CacheInit(DefaultCacheConfig)
    /\ PollInit(TestPollingConfig)
    /\ TrackInit(DefaultEventQueueConfig, 0)
    /\ \E offline \in BOOLEAN, enablePolling \in BOOLEAN :
          ClientInit(Options(offline, enablePolling, {}))
    /\ ExtInit

InitOutcomes == {"ok", "httpError", "parseError"}

NextClient ==
    \/ ClientInitialize
    \/ \E outcome \in InitOutcomes : InitGet(outcome)
    \/ InitStartPolling
    \/ InitStartQueue
    \/ InitSetReady
    \/ InitReturn
    \/ ClientClose
    \/ CloseStopPolling
    \/ CloseStopEvents
    \/ CloseRest
    \/ PollWorkerExit
    \/ FlushWorkerExit

SpecClient == InitClient /\ [][NextClient]_vars

\* C29: once Close has returned, the polling manager and the event queue
\* are stopped and stay stopped, and no worker is launched, whatever a
\* concurrent Initialize was doing.
C29_NothingRunsAfterClose ==
    /\ [](closeCall = "returned" => ~client.pmRunning /\ ~client.eqRunning)
    /\ [][closeCall = "returned"
             => /\ client'.pollWorkers <= client.pollWorkers
                /\ client'.flushWorkers <= client.flushWorkers]_vars



(***************************************************************************)
(* Client.evaluate over the cache.                                         *)
(***************************************************************************)
FlagTypeBoolean == "boolean"
FlagTypeString == "string"

ReasonCached == "CACHED"
ReasonDefault == "DEFAULT"
ReasonFlagNotFound == "FLAG_NOT_FOUND"
ReasonError == "ERROR"
ReasonStaleCache == "STALE_CACHE"
ReasonBootstrap == "BOOTSTRAP"

\* The expected type of a typed getter; "" is Evaluate, which expects none.
ExpectedTypes == {"", FlagTypeBoolean, FlagTypeString}

\* A flag as the server sends it: its value has the type FlagType names.
TypedFlagState(key, flagType) ==
    [Key |-> key, Value |-> IF flagType = FlagTypeBoolean THEN "true" ELSE "text",
     FlagType |-> flagType]

\* Cache.GetStale: the flag of the entry, expired or not.
GetStale(c, key) ==
    IF key \notin DOMAIN c.entries THEN NilFlag ELSE FlagPtr(c.entries[key].Flag)

createDefaultResult(key, defaultValue, reason) ==
    [nil |-> FALSE, FlagKey |-> key, Value |-> defaultValue, Reason |-> reason]

\* evaluate: the key, the fresh entry and its type, the stale entry, the
\* bootstrap value, the default.
evaluate(c, key, defaultValue, expectedType, now, bootstrap) ==
    LET cached == Get(c, key, now)
        stale == GetStale(c, key)
    IN IF key = "" THEN createDefaultResult(key, defaultValue, ReasonDefault)
       ELSE IF ~cached.nil
            THEN IF expectedType # "" /\ cached.flag.FlagType # expectedType
                 THEN createDefaultResult(key, defaultValue, ReasonError)
                 ELSE [nil |-> FALSE, FlagKey |-> key, Value |-> cached.flag.Value,
                       Reason |-> ReasonCached]
       ELSE IF ~stale.nil
            THEN [nil |-> FALSE, FlagKey |-> key, Value |-> stale.flag.Value,
                  Reason |-> ReasonStaleCache]
       ELSE IF key \in bootstrap
            THEN createDefaultResult(key, "bootstrap", ReasonBootstrap)
       ELSE createDefaultResult(key, defaultValue, ReasonFlagNotFound)

\* A flag reaches the cache (Initialize and refresh store what the server
\* sent).
StoreFlag(key, flagType, ttl) ==
    /\ \E oldestKey \in OldestKeys(cache.entries) :
          cache' = Set(cache, key, TypedFlagState(key, flagType), ttl, cacheNow, oldestKey)
    /\ cacheLast' = NoGet
    /\ evalLast' = NoEval
    /\ UNCHANGED <<cacheNow, setMany, client, initCall, closeCall>>
    /\ UNCHANGED <<cbVars, httpVars, pollVars, trackVars, walVars, queueVars, extVars>>

\* A typed getter or Evaluate calls evaluate.
Evaluate(key, expectedType) ==
    /\ evalLast' = [op |-> "evaluate", key |-> key, expectedType |-> expectedType,
                    defaultValue |-> "default",
                    entry |-> IF key \in DOMAIN cache.entries
                              THEN [nil |-> FALSE, e |-> cache.entries[key]]
                              ELSE [nil |-> TRUE],
                    now |-> cacheNow,
                    result |-> evaluate(cache, key, "default", expectedType, cacheNow,
                                        client.options.Bootstrap)]
    /\ UNCHANGED <<cacheVars, client, initCall, closeCall>>
    /\ UNCHANGED <<cbVars, httpVars, pollVars, trackVars, walVars, queueVars, extVars>>

InitEvaluate ==
    /\ WalInit /\ QueueInit /\ epRunning = FALSE
    /\ BreakerInit(DefaultCircuitBreakerConfig)
    /\ HttpInit(DefaultHTTPClientConfig)
    /\ \E ttl \in Ttls, maxSize \in 1..CacheMaxSize :
          CacheInit(CacheConfig(ttl, maxSize))
    /\ PollInit(TestPollingConfig)
    /\ TrackInit(DefaultEventQueueConfig, 0)
    /\ \E bootstrap \in SUBSET {"a"} : ClientInit(Options(FALSE, TRUE, bootstrap))
    /\ ExtInit

NextEvaluate ==
    \/ CacheTick
    \/ \E key \in {"a", "b"}, flagType \in {FlagTypeBoolean, FlagTypeString}, ttl \in Ttls :
          StoreFlag(key, flagType, ttl)
    \/ \E key \in {"", "a"}, expectedType \in ExpectedTypes : Evaluate(key, expectedType)

SpecEvaluate == InitEvaluate /\ [][NextEvaluate]_vars

\* The evaluate just made found an entry under its key whose type is not
\* the expected one.
TypeMismatch ==
    /\ evalLast.op = "evaluate"
    /\ evalLast.key # ""
    /\ evalLast.expectedType # ""
    /\ ~evalLast.entry.nil
    /\ evalLast.entry.e.Flag.FlagType # evalLast.expectedType

\* C30: a typed read whose expected type is not the stored flag's type
\* returns the caller's default with reason ERROR, the entry being fresh or
\* expired, and the cached entry is as it was.
C30_TypeMismatchIsError ==
    TypeMismatch
        => /\ evalLast.result.Value = evalLast.defaultValue
           /\ evalLast.result.Reason = ReasonError
           /\ cache.entries[evalLast.key] = evalLast.entry.e

(***************************************************************************)
(* NewClient applying the bootstrap: VerifyBootstrapSignature and the      *)
(* OnFailure policy.                                                       *)
(***************************************************************************)
\* CacheConfig.MaxSize of the client's cache, and the TTL of a bootstrap
\* flag (365 days, in days).
ClientCacheMaxSize == 1000
BootstrapTTL == 365

ApiKey == "sdk_key"

\* GenerateHMACSHA256 over timestamp.canonical(flags): equal for equal
\* message and key, different otherwise.
GenerateHMACSHA256(timestamp, flags, key) ==
    [timestamp |-> timestamp, flags |-> flags, key |-> key]

\* The empty Signature string.
NoSignature == [timestamp |-> 0, flags |-> {}, key |-> ""]

\* VerifyBootstrapSignature: disabled or unsigned passes; then the age
\* (MaxAge 0 is no limit, Timestamp 0 is not checked), then the signature.
VerifyBootstrapSignature(bootstrap, apiKey, config, now) ==
    IF ~config.Enabled THEN TRUE
    ELSE IF bootstrap.Signature = NoSignature THEN TRUE
    ELSE IF config.MaxAge > 0 /\ bootstrap.Timestamp > 0
            /\ now - bootstrap.Timestamp > config.MaxAge THEN FALSE
    ELSE bootstrap.Signature
            = GenerateHMACSHA256(bootstrap.Timestamp, bootstrap.Flags, apiKey)

\* The flags applyBootstrap goes on to cache (nil: it returned before the
\* loop) and whether it called OnError, with every policy applying.
bootstrapFlagsAnyPolicy(options, now) ==
    IF ~options.BootstrapWithSignature.nil
    THEN [nil |-> FALSE, flags |-> options.BootstrapWithSignature.Flags, onError |-> FALSE]
    ELSE [nil |-> FALSE, flags |-> options.Bootstrap, onError |-> FALSE]

bootstrapFlags(options, now) ==
    IF ~options.BootstrapWithSignature.nil
    THEN LET bootstrap == options.BootstrapWithSignature
             valid == VerifyBootstrapSignature(bootstrap, ApiKey,
                                               options.BootstrapVerification, now)
         IN IF bootstrap.Signature # NoSignature /\ ~valid
               /\ options.BootstrapVerification.OnFailure = "error"
            THEN [nil |-> TRUE, flags |-> {}, onError |-> options.OnError]
            ELSE [nil |-> FALSE, flags |-> bootstrap.Flags, onError |-> FALSE]
    ELSE [nil |-> FALSE, flags |-> options.Bootstrap, onError |-> FALSE]

\* The loop of applyBootstrap: one Cache.Set per flag, in the order the map
\* is ranged over.
RECURSIVE SetAll(_, _, _)
SetAll(c, order, now) ==
    IF order = <<>> THEN c
    ELSE SetAll(Set(c, Head(order), TypedFlagState(Head(order), FlagTypeBoolean),
                    BootstrapTTL, now, CHOOSE k \in OldestKeys(c.entries) : TRUE),
                Tail(order), now)

\* NewClient from the cache on: applyBootstrap, then the client is returned.
ApplyBootstrap ==
    /\ ~boot.constructed
    /\ LET applied == bootstrapFlags(boot.options, boot.now)
       IN /\ \E order \in Perms(applied.flags) : cache' = SetAll(cache, order, cacheNow)
          /\ boot' = [boot EXCEPT !.constructed = TRUE,
                                  !.onError = IF applied.onError THEN @ + 1 ELSE @]
    /\ UNCHANGED <<cacheNow, setMany, cacheLast, sq, lk, posts, wr, pn, sm, hd>>
    /\ UNCHANGED <<walVars, queueVars, cbVars, httpVars, pollVars, trackVars, clientVars>>

\* A flag is read after construction.
BootGet(key) ==
    /\ boot.constructed
    /\ cacheLast' = [op |-> "get", key |-> key, result |-> Get(cache, key, cacheNow)]
    /\ UNCHANGED <<cache, cacheNow, setMany, boot, sq, lk, posts, wr, pn, sm, hd>>
    /\ UNCHANGED <<walVars, queueVars, cbVars, httpVars, pollVars, trackVars, clientVars>>

BootKeys == {"a", "b"}

\* What a bootstrap can carry as its signature: none, the signature of
\* these flags, of other flags (tampered with), or made with another key.
Signatures(flags, timestamp) ==
    {NoSignature, GenerateHMACSHA256(timestamp, flags, ApiKey),
     GenerateHMACSHA256(timestamp, flags \cup {"x"}, ApiKey),
     GenerateHMACSHA256(timestamp, flags, "other_key")}

Policies == {"warn", "error", "ignore"}

InitBoot ==
    /\ WalInit /\ QueueInit /\ epRunning = FALSE
    /\ BreakerInit(DefaultCircuitBreakerConfig)
    /\ HttpInit(DefaultHTTPClientConfig)
    /\ CacheInit(CacheConfig(MaxTtl, ClientCacheMaxSize))
    /\ PollInit(TestPollingConfig)
    /\ TrackInit(DefaultEventQueueConfig, 0)
    /\ ClientInit(DefaultOptions)
    /\ \E legacy \in SUBSET {"b"}, flags \in SUBSET BootKeys, timestamp \in 0..MaxStamp,
          now \in MaxStamp..(MaxStamp + 1), enabled \in BOOLEAN, maxAge \in 0..1,
          onFailure \in Policies, hasOnError \in BOOLEAN :
          \E signed \in {NilBootstrap}
                 \cup {BootstrapConfig(flags, sig, timestamp) :
                          sig \in Signatures(flags, timestamp)} :
             boot = [options |-> BootOptions(legacy, signed,
                                    BootstrapVerificationConfig(enabled, maxAge, onFailure),
                                    hasOnError),
                     constructed |-> FALSE, onError |-> 0, now |-> now]
    /\ SendInit
    /\ LockInit
    /\ PostsInit
    /\ RetryInit(DefaultRetryConfig)
    /\ PollNowInit
    /\ StreamInit
    /\ HandlesInit

NextBoot ==
    \/ ApplyBootstrap
    \/ \E key \in BootKeys : BootGet(key)

SpecBoot == InitBoot /\ [][NextBoot]_vars

\* The client was built from a signed bootstrap (one that carries a
\* signature), and whether its verification passed.
SignedBootstrap ==
    /\ boot.constructed
    /\ ~boot.options.BootstrapWithSignature.nil
    /\ boot.options.BootstrapWithSignature.Signature # NoSignature

VerificationPassed ==
    VerifyBootstrapSignature(boot.options.BootstrapWithSignature, ApiKey,
                             boot.options.BootstrapVerification, boot.now)

FlushCopy(f) ==
    /\ sq.send[f].pc = "idle"
    /\ eq.events # <<>>
    /\ sq' = [sq EXCEPT !.send[f] = [pc |-> "mark", batch |-> eq.events],
                        !.stopPc = IF f = "closer" THEN "sending" ELSE @]

\* EventQueue.Start.
SqStart ==
    /\ ~sq.running
    /\ sq' = [sq EXCEPT !.running = TRUE, !.workerAlive = TRUE]
    /\ UNCHANGED <<boot, lk, posts, wr, pn, sm, hd, trackVars>>
    /\ UNCHANGED <<walVars, queueVars, cbVars, httpVars, cacheVars, pollVars, clientVars>>

\* run: the ticker fired, or (signal) the batch-full signal was received.
SqWorkerFlush(signal) ==
    /\ sq.workerAlive
    /\ signal => eq.flushCh
    /\ FlushCopy("worker")
    /\ eq' = [eq EXCEPT !.events = <<>>, !.flushCh = IF signal THEN FALSE ELSE @]
    /\ UNCHANGED <<boot, lk, posts, wr, pn, sm, hd, eqWal, eqNow, eqFlush, eqLast, issued>>
    /\ UNCHANGED <<walVars, queueVars, cbVars, httpVars, cacheVars, pollVars, clientVars>>

\* run: the stop channel is closed.
SqWorkerExit ==
    /\ sq.workerAlive
    /\ ~sq.running
    /\ sq.send["worker"].pc = "idle"
    /\ sq' = [sq EXCEPT !.workerAlive = FALSE]
    /\ UNCHANGED <<boot, lk, posts, wr, pn, sm, hd, trackVars>>
    /\ UNCHANGED <<walVars, queueVars, cbVars, httpVars, cacheVars, pollVars, clientVars>>

\* Client.Flush from an application goroutine.
SqCallerFlush ==
    /\ FlushCopy("caller")
    /\ eq' = [eq EXCEPT !.events = <<>>]
    /\ UNCHANGED <<boot, lk, posts, wr, pn, sm, hd, eqWal, eqNow, eqFlush, eqLast, issued>>
    /\ UNCHANGED <<walVars, queueVars, cbVars, httpVars, cacheVars, pollVars, clientVars>>

\* EventQueue.Stop, under the lock.
SqStop ==
    /\ sq.stopPc = "idle"
    /\ sq.running
    /\ sq' = [sq EXCEPT !.running = FALSE, !.stopPc = "flush"]
    /\ UNCHANGED <<boot, lk, posts, wr, pn, sm, hd, trackVars>>
    /\ UNCHANGED <<walVars, queueVars, cbVars, httpVars, cacheVars, pollVars, clientVars>>

\* EventQueue.Stop: the final Flush.
SqFinalFlush ==
    /\ sq.stopPc = "flush"
    /\ IF eq.events = <<>>
       THEN sq' = [sq EXCEPT !.stopPc = "idle"] /\ UNCHANGED eq
       ELSE FlushCopy("closer") /\ eq' = [eq EXCEPT !.events = <<>>]
    /\ UNCHANGED <<boot, lk, posts, wr, pn, sm, hd, eqWal, eqNow, eqFlush, eqLast, issued>>
    /\ UNCHANGED <<walVars, queueVars, cbVars, httpVars, cacheVars, pollVars, clientVars>>

\* sendEvents: MarkSending.
SqMarkSending(f) ==
    /\ sq.send[f].pc = "mark"
    /\ eqWal' = EqMark(eqWal, RangeIds(sq.send[f].batch), EventStatusSending)
    /\ sq' = [sq EXCEPT !.send[f].pc = "post"]
    /\ UNCHANGED <<boot, lk, posts, wr, pn, sm, hd, eq, eqNow, eqFlush, eqLast, issued>>
    /\ UNCHANGED <<walVars, queueVars, cbVars, httpVars, cacheVars, pollVars, clientVars>>

\* sendEvents: the POST and the mark that follows it.
SqPost(f, ok) ==
    /\ sq.send[f].pc = "post"
    /\ eqWal' = EqMark(eqWal, RangeIds(sq.send[f].batch),
                       IF ok THEN EventStatusSent ELSE EventStatusFailed)
    /\ sq' = [sq EXCEPT !.send[f] = NoFlush,
                        !.stopPc = IF f = "closer" THEN "idle" ELSE @]
    /\ UNCHANGED <<boot, lk, posts, wr, pn, sm, hd, eq, eqNow, eqFlush, eqLast, issued>>
    /\ UNCHANGED <<walVars, queueVars, cbVars, httpVars, cacheVars, pollVars, clientVars>>

InitSend ==
    /\ WalInit /\ QueueInit /\ epRunning = FALSE
    /\ BreakerInit(DefaultCircuitBreakerConfig)
    /\ HttpInit(DefaultHTTPClientConfig)
    /\ CacheInit(DefaultCacheConfig)
    /\ PollInit(TestPollingConfig)
    /\ TrackInit(DefaultEventQueueConfig, 0)
    /\ ClientInit(DefaultOptions)
    /\ ExtInit

NextSend ==
    \/ EqTick
    \/ EqTrack(0)
    \/ SqStart
    \/ \E signal \in BOOLEAN : SqWorkerFlush(signal)
    \/ SqWorkerExit
    \/ SqCallerFlush
    \/ SqStop
    \/ SqFinalFlush
    \/ \E f \in Flushers : SqMarkSending(f)
    \/ \E f \in Flushers, ok \in BOOLEAN : SqPost(f, ok)

SpecSend == InitSend /\ [][NextSend]_vars

\* C33: at most one flusher (the worker, a caller of Flush, the final flush
\* of Stop) is inside sendEvents with a batch at any time.
C33_OneSendInFlight ==
    Cardinality({f \in Flushers : sq.send[f].pc # "idle"}) <= 1

(***************************************************************************)
(* eq.mu followed line by line through Track / TrackWithContext, Flush     *)
(* and RecoverEvents: who holds the lock and who is inside a call to the   *)
(* persister or to the HTTP client.                                        *)
(***************************************************************************)
\* eq.mu.Lock() at the top of Track, TrackWithContext and Flush.
Lock(t) ==
    /\ lk.pc[t] = "idle"
    /\ lk.holder = "none"
    /\ t = "track" => Len(issued) < MaxIssued
    /\ lk' = [lk EXCEPT !.holder = t, !.pc[t] = "locked"]
    /\ UNCHANGED <<boot, sq, posts, wr, pn, sm, hd, trackVars>>
    /\ UNCHANGED <<walVars, queueVars, cbVars, httpVars, cacheVars, pollVars, clientVars>>

\* Track on a full queue: return (the deferred Unlock runs).
TrackFull ==
    /\ lk.pc["track"] = "locked"
    /\ Len(eq.events) >= eq.config.MaxSize
    /\ lk' = [lk EXCEPT !.holder = "none", !.pc["track"] = "idle"]
    /\ UNCHANGED <<boot, sq, posts, wr, pn, sm, hd, trackVars>>
    /\ UNCHANGED <<walVars, queueVars, cbVars, httpVars, cacheVars, pollVars, clientVars>>

\* Track: the event is stamped and eq.persister.Persist is entered.
TrackPersistEnter ==
    /\ lk.pc["track"] = "locked"
    /\ Len(eq.events) < eq.config.MaxSize
    /\ lk' = [lk EXCEPT !.pc["track"] = "persist", !.io = @ \cup {"track"}]
    /\ issued' = Append(issued, generateEventID(eqNow))
    /\ UNCHANGED <<boot, sq, posts, wr, pn, sm, hd, eq, eqWal, eqNow, eqFlush, eqLast>>
    /\ UNCHANGED <<walVars, queueVars, cbVars, httpVars, cacheVars, pollVars, clientVars>>

\* Track: Persist returns (its error is only logged), the event is
\* appended, a full batch is signalled, and the deferred Unlock runs.
TrackPersistReturn(context, ok) ==
    /\ lk.pc["track"] = "persist"
    /\ LET eventID == issued[Len(issued)]
           queued == Append(eq.events, QEvent(eventID, "custom", eventID, context, eqNow))
       IN /\ eqWal' = IF ok
                      THEN EqPersist(eqWal, PersistedEvent(eventID, "custom", eventID,
                                         context, eqNow, EventStatusPending, 0))
                      ELSE eqWal
          /\ eq' = [eq EXCEPT !.events = queued,
                              !.flushCh = @ \/ Len(queued) >= eq.config.BatchSize]
    /\ lk' = [lk EXCEPT !.holder = "none", !.pc["track"] = "idle", !.io = @ \ {"track"}]
    /\ UNCHANGED <<boot, sq, posts, wr, pn, sm, hd, eqNow, eqFlush, eqLast, issued>>
    /\ UNCHANGED <<walVars, queueVars, cbVars, httpVars, cacheVars, pollVars, clientVars>>

\* Flush: empty queue, or copy, clear and Unlock.
FlushUnlock ==
    /\ lk.pc["flush"] = "locked"
    /\ lk' = [lk EXCEPT !.holder = "none",
                        !.pc["flush"] = IF eq.events = <<>> THEN "idle" ELSE "unlocked",
                        !.batch = eq.events]
    /\ eq' = [eq EXCEPT !.events = <<>>]
    /\ UNCHANGED <<boot, sq, posts, wr, pn, sm, hd, eqWal, eqNow, eqFlush, eqLast, issued>>
    /\ UNCHANGED <<walVars, queueVars, cbVars, httpVars, cacheVars, pollVars, clientVars>>

\* A call to the persister or to the HTTP client is entered: MarkSending,
\* the POST and MarkSent by sendEvents, Recover by RecoverEvents (once per
\* process).
IoEnter ==
    /\ \/ lk.pc["flush"] = "unlocked"
          /\ lk' = [lk EXCEPT !.pc["flush"] = "markSending", !.io = @ \cup {"flush"}]
       \/ lk.pc["flush"] = "marked"
          /\ lk' = [lk EXCEPT !.pc["flush"] = "post", !.io = @ \cup {"flush"}]
       \/ lk.pc["flush"] = "posted"
          /\ lk' = [lk EXCEPT !.pc["flush"] = "markDone", !.io = @ \cup {"flush"}]
       \/ lk.pc["recover"] = "idle" /\ ~eqLast.recovered
          /\ lk' = [lk EXCEPT !.pc["recover"] = "recover", !.io = @ \cup {"recover"}]
    /\ UNCHANGED <<boot, sq, posts, wr, pn, sm, hd, trackVars>>
    /\ UNCHANGED <<walVars, queueVars, cbVars, httpVars, cacheVars, pollVars, clientVars>>

\* sendEvents: MarkSending returns, the POST returns, MarkSent or
\* MarkFailed returns.
IoReturn(ok) ==
    /\ \/ lk.pc["flush"] = "markSending"
          /\ eqWal' = EqMark(eqWal, RangeIds(lk.batch), EventStatusSending)
          /\ lk' = [lk EXCEPT !.pc["flush"] = "marked", !.io = @ \ {"flush"}]
       \/ lk.pc["flush"] = "post"
          /\ UNCHANGED eqWal
          /\ lk' = [lk EXCEPT !.pc["flush"] = IF ok THEN "posted" ELSE "postedFailed",
                              !.io = @ \ {"flush"}]
       \/ lk.pc["flush"] = "markDone"
          /\ eqWal' = EqMark(eqWal, RangeIds(lk.batch), EventStatusSent)
          /\ lk' = [lk EXCEPT !.pc["flush"] = "idle", !.io = @ \ {"flush"},
                              !.batch = <<>>]
    /\ UNCHANGED <<boot, sq, posts, wr, pn, sm, hd, eq, eqNow, eqFlush, eqLast, issued>>
    /\ UNCHANGED <<walVars, queueVars, cbVars, httpVars, cacheVars, pollVars, clientVars>>

\* sendEvents after a failed POST: MarkFailed is entered and returns.
MarkFailedCall ==
    /\ \/ lk.pc["flush"] = "postedFailed"
          /\ lk' = [lk EXCEPT !.pc["flush"] = "markFailed", !.io = @ \cup {"flush"}]
          /\ UNCHANGED eqWal
       \/ lk.pc["flush"] = "markFailed"
          /\ eqWal' = EqMark(eqWal, RangeIds(lk.batch), EventStatusFailed)
          /\ lk' = [lk EXCEPT !.pc["flush"] = "idle", !.io = @ \ {"flush"},
                              !.batch = <<>>]
    /\ UNCHANGED <<boot, sq, posts, wr, pn, sm, hd, eq, eqNow, eqFlush, eqLast, issued>>
    /\ UNCHANGED <<walVars, queueVars, cbVars, httpVars, cacheVars, pollVars, clientVars>>

\* RecoverEvents: persister.Recover returns; nothing recovered ends the call.
RecoverReturn ==
    /\ lk.pc["recover"] = "recover"
    /\ \E order \in Perms(EqRecover(eqWal)) :
          lk' = [lk EXCEPT !.pc["recover"] = IF order = <<>> THEN "idle" ELSE "recovered",
                           !.io = @ \ {"recover"}, !.recovered = order]
    /\ eqLast' = [eqLast EXCEPT !.recovered = TRUE]
    /\ UNCHANGED <<boot, sq, posts, wr, pn, sm, hd, eq, eqWal, eqNow, eqFlush, issued>>
    /\ UNCHANGED <<walVars, queueVars, cbVars, httpVars, cacheVars, pollVars, clientVars>>

\* RecoverEvents: Lock, prepend up to MaxSize, Unlock (the deferred Unlock).
RecoverPrepend ==
    /\ lk.pc["recover"] = "recovered"
    /\ lk.holder = "none"
    /\ eq' = [eq EXCEPT !.events = RecoverInto(lk.recovered, eq.events, eq.config.MaxSize)]
    /\ lk' = [lk EXCEPT !.pc["recover"] = "idle", !.recovered = <<>>]
    /\ UNCHANGED <<boot, sq, posts, wr, pn, sm, hd, eqWal, eqNow, eqFlush, eqLast, issued>>
    /\ UNCHANGED <<walVars, queueVars, cbVars, httpVars, cacheVars, pollVars, clientVars>>

InitLock ==
    /\ WalInit /\ QueueInit /\ epRunning = FALSE
    /\ BreakerInit(DefaultCircuitBreakerConfig)
    /\ HttpInit(DefaultHTTPClientConfig)
    /\ CacheInit(DefaultCacheConfig)
    /\ PollInit(TestPollingConfig)
    /\ \E old \in 0..MaxOld : TrackInit(DefaultEventQueueConfig, old)
    /\ ClientInit(DefaultOptions)
    /\ ExtInit

NextLock ==
    \/ EqTick
    \/ \E t \in {"track", "flush"} : Lock(t)
    \/ TrackFull
    \/ TrackPersistEnter
    \/ \E context \in {0, 1}, ok \in BOOLEAN : TrackPersistReturn(context, ok)
    \/ FlushUnlock
    \/ IoEnter
    \/ \E ok \in BOOLEAN : IoReturn(ok)
    \/ MarkFailedCall
    \/ RecoverReturn
    \/ RecoverPrepend

SpecLock == InitLock /\ [][NextLock]_vars

\* C34: whoever holds eq.mu is not inside a call to the persister or to the
\* HTTP client.
C34_NoIoUnderLock == lk.holder \notin lk.io

(***************************************************************************)
(* Concurrent calls of HTTPClient.Post on one client: each goes through    *)
(* request (Allow, one transport call for an error that is not retried,    *)
(* the report to the breaker) and, after 401 / 403, through                *)
(* rotateToSecondaryKey.                                                   *)
(***************************************************************************)
\* request up to the transport call: Allow, and the key doRequest puts in
\* the headers.
PostRequest(p, phase) ==
    LET a == Allow(cb, cbNow)
    IN /\ cb' = a.cb
       /\ posts' = [posts EXCEPT ![p] =
                       IF a.ok
                       THEN [@ EXCEPT !.pc = "inflight", !.phase = phase,
                                      !.sent = Append(@, hc.currentAPIKey)]
                       ELSE [@ EXCEPT !.pc = "done", !.phase = phase,
                                      !.err = NewError(ErrCircuitOpen)]]

\* Post is called.
PostBegin(p) ==
    /\ posts[p].pc = "idle"
    /\ PostRequest(p, 1)
    /\ UNCHANGED <<hc, httpCall, cbNow, req, cbLast, streak, admitted, boot, sq, lk, wr, pn, sm, hd>>
    /\ UNCHANGED <<walVars, queueVars, cacheVars, pollVars, trackVars, clientVars>>

\* What the server answers to a request made with a key: the primary key
\* may have been revoked, the secondary key is valid.
Answers(key) == IF key = PrimaryKey THEN {200, 401, 403} ELSE {200}

\* The server answers; request reports to the breaker and returns, and
\* postWithKeyRotation looks at the error of the first request.
PostAnswer(p, status) ==
    /\ posts[p].pc = "inflight"
    /\ status \in Answers(posts[p].sent[Len(posts[p].sent)])
    /\ LET err == doRequest(status)
           auth == err.code \in {ErrAuthUnauthorized, ErrAuthInvalidKey}
       IN /\ cb' = IF err = NoError THEN RecordSuccess(cb) ELSE RecordFailure(cb, cbNow)
          /\ posts' = [posts EXCEPT ![p] =
                          [@ EXCEPT !.pc = IF posts[p].phase = 1 /\ auth THEN "rotate"
                                           ELSE "done",
                                    !.statuses = Append(@, status),
                                    !.err = err]]
    /\ UNCHANGED <<hc, httpCall, cbNow, req, cbLast, streak, admitted, boot, sq, lk, wr, pn, sm, hd>>
    /\ UNCHANGED <<walVars, queueVars, cacheVars, pollVars, trackVars, clientVars>>

\* postWithKeyRotation: rotate, and if that succeeded call request again.
PostRotateRetry(p) ==
    /\ posts[p].pc = "rotate"
    /\ LET rot == IF hc.secondaryAPIKey # ""
                  THEN rotateToSecondaryKey(hc, cbNow)
                  ELSE [hc |-> hc, ok |-> FALSE]
       IN /\ hc' = rot.hc
          /\ IF rot.ok
             THEN LET a == Allow(cb, cbNow)
                  IN /\ cb' = a.cb
                     /\ posts' = [posts EXCEPT ![p] =
                                     IF a.ok
                                     THEN [@ EXCEPT !.pc = "inflight", !.phase = 2,
                                                    !.sent = Append(@, rot.hc.currentAPIKey)]
                                     ELSE [@ EXCEPT !.pc = "done", !.phase = 2,
                                                    !.err = NewError(ErrCircuitOpen)]]
             ELSE /\ posts' = [posts EXCEPT ![p].pc = "done"]
                  /\ UNCHANGED cb
    /\ UNCHANGED <<httpCall, cbNow, req, cbLast, streak, admitted, boot, sq, lk, wr, pn, sm, hd>>
    /\ UNCHANGED <<walVars, queueVars, cacheVars, pollVars, trackVars, clientVars>>

InitRotate ==
    /\ WalInit /\ QueueInit /\ epRunning = FALSE
    /\ \E ft \in 1..MaxThreshold, rt \in 0..MaxResetTimeout :
          BreakerInit(CircuitBreakerConfig(ft, 1, rt, 1))
    /\ \E secondary \in {"", SecondaryKey} :
          HttpInit(HTTPClientConfig(PrimaryKey, secondary, MaxAttempts))
    /\ CacheInit(DefaultCacheConfig)
    /\ PollInit(TestPollingConfig)
    /\ TrackInit(DefaultEventQueueConfig, 0)
    /\ ClientInit(DefaultOptions)
    /\ ExtInit

NextRotate ==
    \/ ClockTick
    \/ \E p \in Posters : PostBegin(p)
    \/ \E p \in Posters, status \in {200, 401, 403} : PostAnswer(p, status)
    \/ \E p \in Posters : PostRotateRetry(p)

SpecRotate == InitRotate /\ [][NextRotate]_vars

\* C36: with a secondary key configured, a Post whose request with the
\* primary key was answered 401 or 403 has been made again, once, with the
\* secondary key by the time it returns.
C36_EveryAuthFailureIsRetried ==
    \A p \in Posters :
       (/\ posts[p].pc = "done"
        /\ hc.secondaryAPIKey # ""
        /\ Len(posts[p].sent) >= 1
        /\ posts[p].sent[1] = PrimaryKey
        /\ Len(posts[p].statuses) >= 1
        /\ posts[p].statuses[1] \in {401, 403})
          => posts[p].phase = 2

(***************************************************************************)
(* WithRetry and the delay it sleeps for between two attempts.             *)
(***************************************************************************)
RECURSIVE Power(_, _)
Power(b, n) == IF n = 0 THEN 1 ELSE b * Power(b, n - 1)

Smaller(a, b) == IF a <= b THEN a ELSE b

\* rand.Float64() * Jitter truncates to random; the conversion of the
\* product to time.Duration truncates too.  The jitter is added after the
\* cap.
CalculateBackoff(attempt, config, random) ==
    Smaller((config.BaseDelay * Power(config.BackoffMultiplier.num, attempt - 1))
               \div Power(config.BackoffMultiplier.den, attempt - 1),
            config.MaxDelay) + random

\* rand.Float64() is in [0, 1): the jitter is below config.Jitter.
Jitters(config) == IF config.Jitter = 0 THEN {0} ELSE 0..(config.Jitter - 1)

\* WithRetry is called: the first attempt begins.
RetryBegin ==
    /\ wr.pc = "idle"
    /\ wr' = [wr EXCEPT !.pc = IF wr.config.MaxAttempts >= 1 THEN "fn" ELSE "done",
                        !.attempt = 1]
    /\ UNCHANGED <<boot, sq, lk, posts, pn, sm, hd>>
    /\ UNCHANGED <<walVars, queueVars, cbVars, httpVars, cacheVars, pollVars, trackVars, clientVars>>

\* fn returned: nil, an error that is not retried, or one that is; after
\* the last the loop sleeps unless this was the last attempt.
RetryFnReturn(outcome, random) ==
    /\ wr.pc = "fn"
    /\ random \in Jitters(wr.config)
    /\ wr' = CASE outcome = "ok" -> [wr EXCEPT !.pc = "done", !.err = "none"]
               [] outcome = "fatal" -> [wr EXCEPT !.pc = "done", !.err = "fatal"]
               [] OTHER ->
                    IF wr.attempt >= wr.config.MaxAttempts
                    THEN [wr EXCEPT !.pc = "done", !.err = "retryable"]
                    ELSE [wr EXCEPT !.pc = "sleep", !.err = "retryable",
                                    !.sleeps = @ + 1,
                                    !.delay = CalculateBackoff(wr.attempt, wr.config, random)]
    /\ UNCHANGED <<boot, sq, lk, posts, pn, sm, hd>>
    /\ UNCHANGED <<walVars, queueVars, cbVars, httpVars, cacheVars, pollVars, trackVars, clientVars>>

\* time.Sleep returned: the next attempt.
RetrySleepReturn ==
    /\ wr.pc = "sleep"
    /\ wr' = [wr EXCEPT !.pc = "fn", !.attempt = @ + 1]
    /\ UNCHANGED <<boot, sq, lk, posts, pn, sm, hd>>
    /\ UNCHANGED <<walVars, queueVars, cbVars, httpVars, cacheVars, pollVars, trackVars, clientVars>>

RetryOutcomes == {"ok", "fatal", "retryable"}

RetryMultipliers == {Multiplier(1, 1), Multiplier(3, 2), Multiplier(2, 1)}

\* Any configuration whose MaxDelay is not below its BaseDelay.
InitRetry ==
    /\ WalInit /\ QueueInit /\ epRunning = FALSE
    /\ BreakerInit(DefaultCircuitBreakerConfig)
    /\ HttpInit(DefaultHTTPClientConfig)
    /\ CacheInit(DefaultCacheConfig)
    /\ PollInit(TestPollingConfig)
    /\ TrackInit(DefaultEventQueueConfig, 0)
    /\ ClientInit(DefaultOptions)
    /\ BootInit(DefaultBootOptions) /\ SendInit /\ LockInit /\ PostsInit /\ PollNowInit /\ StreamInit /\ HandlesInit
    /\ \E maxAttempts \in 1..(MaxAttempts + 1), baseDelay \in 1..MaxRetryDelay,
          maxDelay \in 1..MaxRetryDelay, multiplier \in RetryMultipliers,
          jitter \in 0..MaxRetryDelay :
            /\ baseDelay <= maxDelay
            /\ RetryInit(RetryConfig(maxAttempts, baseDelay, maxDelay, multiplier, jitter))

NextRetry ==
    \/ RetryBegin
    \/ \E outcome \in RetryOutcomes, random \in 0..MaxRetryDelay :
          RetryFnReturn(outcome, random)
    \/ RetrySleepReturn

SpecRetry == InitRetry /\ [][NextRetry]_vars

\* C39: whenever the retry loop sleeps, the delay it sleeps for, jitter
\* included, is at most MaxDelay.
C39_SleepWithinMaxDelay ==
    wr.pc = "sleep" => wr.delay <= wr.config.MaxDelay

(***************************************************************************)
(* The polling manager with a goroutine that calls PollNow while the       *)
(* scheduler runs.                                                         *)
(***************************************************************************)
\* PollNow calls poll, which checks running under the mutex and returns
\* when the manager is not running.
PollNowCall ==
    /\ pn.pc = "idle"
    /\ pn' = [pn EXCEPT !.pc = IF pm.running THEN "checked" ELSE "done"]
    /\ UNCHANGED <<boot, sq, lk, posts, wr, sm, hd>>
    /\ UNCHANGED <<walVars, queueVars, cbVars, httpVars, cacheVars, pollVars, trackVars, clientVars>>

\* poll has released the mutex and calls onPoll on the caller's goroutine.
PollNowBegin ==
    /\ pn.pc = "checked"
    /\ pn' = [pn EXCEPT !.pc = "action", !.invoked = @ + 1]
    /\ UNCHANGED <<boot, sq, lk, posts, wr, sm, hd>>
    /\ UNCHANGED <<walVars, queueVars, cbVars, httpVars, cacheVars, pollVars, trackVars, clientVars>>

\* onPoll ends, with its report or by a panic; PollNow returns.
PollNowEnd(outcome) ==
    /\ pn.pc = "action"
    /\ outcome \in {"error", "panic"} => pm.consecutiveErrors < MaxErrors
    /\ pm' = poll(pm, outcome).pm
    /\ pn' = [pn EXCEPT !.pc = "done"]
    /\ UNCHANGED <<pollers, closedCh, pollLast, boot, sq, lk, posts, wr, sm, hd>>
    /\ UNCHANGED <<walVars, queueVars, cbVars, httpVars, cacheVars, trackVars, clientVars>>

NextPollNow ==
    \/ PmStart
    \/ PmStop
    \/ \E w \in PollerIds : RunSelect(w)
    \/ \E w \in PollerIds : RunStopped(w)
    \/ \E w \in PollerIds : RunTimer(w)
    \/ \E w \in PollerIds : PollBegin(w)
    \/ \E w \in PollerIds, outcome \in Outcomes : PollEnd(w, outcome)
    \/ PollNowCall
    \/ PollNowBegin
    \/ \E outcome \in Outcomes : PollNowEnd(outcome)

SpecPollNow == InitPolling /\ [][NextPollNow]_vars

\* The invocations of onPoll that are executing.
Executing ==
    Cardinality({w \in PollerIds : pollers[w].pc = "action"})
       + (IF pn.pc = "action" THEN 1 ELSE 0)

\* C38: at most one invocation of onPoll executes at a time, the ones made
\* by PollNow included, and a PollNow that has returned has invoked onPoll
\* exactly once.
C38_OnePollAtATime ==
    /\ Executing <= 1
    /\ pn.pc = "done" => pn.invoked = 1

(***************************************************************************)
(* The streaming manager: its callers, its timers and the goroutines of    *)
(* initiateConnection.  The server's events are left out; a connection     *)
(* ends by a read error.                                                   *)
(***************************************************************************)
\* cleanup: cancel the context on record and stop the timers kept in
\* fields.
cleanup(m) ==
    [m EXCEPT !.cancelled = IF m.cancelFunc # 0 THEN @ \cup {m.cancelFunc} ELSE @,
              !.cancelFunc = 0,
              !.tokenRefreshTimer = FALSE,
              !.heartbeatTimer = FALSE,
              !.retryTimer = FALSE]

FreeConns(m) == {c \in ConnIds : m.conns[c].pc = "none"}

\* Connect can be modelled: it returns at once or a goroutine is left.
CanConnect(m) ==
    \/ m.state \in {StreamingStateConnected, StreamingStateConnecting}
    \/ FreeConns(m) # {}

\* Connect: nothing while connected or connecting, else CONNECTING and
\* go sm.initiateConnection().
Connect(m) ==
    IF m.state \in {StreamingStateConnected, StreamingStateConnecting}
    THEN m
    ELSE LET c == CHOOSE f \in FreeConns(m) : \A g \in FreeConns(m) : f <= g
         IN [m EXCEPT !.state = StreamingStateConnecting,
                      !.conns[c] = [pc |-> "token", ctx |-> 0]]

Disconnect(m) ==
    [cleanup(m) EXCEPT !.state = StreamingStateDisconnected,
                       !.consecutiveFailures = 0]

RetryConnection(m) ==
    IF m.state \in {StreamingStateConnected, StreamingStateConnecting}
    THEN m
    ELSE Connect([m EXCEPT !.consecutiveFailures = 0])

\* handleConnectionFailure: after MaxReconnectAttempts failures FAILED
\* and the retry timer, else RECONNECTING and a reconnect timer.
handleConnectionFailure(m) ==
    LET n == cleanup(m)
        failures == n.consecutiveFailures + 1
    IN IF failures >= MaxReconnect
       THEN [n EXCEPT !.consecutiveFailures = failures,
                      !.state = StreamingStateFailed,
                      !.retryTimer = TRUE]
       ELSE [n EXCEPT !.consecutiveFailures = failures,
                      !.state = StreamingStateReconnecting,
                      !.reconnectTimers = @ + 1]

StreamUnchanged ==
    /\ UNCHANGED <<boot, sq, lk, posts, wr, pn, hd>>
    /\ UNCHANGED <<walVars, queueVars, cbVars, httpVars, cacheVars, pollVars, trackVars, clientVars>>

\* The application calls Connect.
SmConnect ==
    /\ CanConnect(sm)
    /\ sm' = [Connect(sm) EXCEPT !.quiet = FALSE]
    /\ StreamUnchanged

\* The application calls RetryConnection.
SmRetryConnection ==
    /\ CanConnect(sm)
    /\ sm' = [RetryConnection(sm) EXCEPT !.quiet = FALSE]
    /\ StreamUnchanged

\* The application calls Disconnect, and it returns.
SmDisconnect ==
    /\ sm' = [Disconnect(sm) EXCEPT !.quiet = TRUE]
    /\ StreamUnchanged

\* A timer of scheduleReconnect fires: its function calls Connect.
ReconnectTimerFire ==
    /\ sm.reconnectTimers > 0
    /\ CanConnect(sm)
    /\ sm' = Connect([sm EXCEPT !.reconnectTimers = @ - 1])
    /\ StreamUnchanged

\* The timer of scheduleStreamingRetry fires: RetryConnection.
RetryTimerFire ==
    /\ sm.retryTimer
    /\ CanConnect(sm)
    /\ sm' = RetryConnection([sm EXCEPT !.retryTimer = FALSE])
    /\ StreamUnchanged

\* The token refresh timer fires: a new token and a new timer, or
\* Disconnect and Connect.
TokenRefreshFire(ok) ==
    /\ sm.tokenRefreshTimer
    /\ IF ok
       THEN sm' = sm
       ELSE /\ FreeConns(sm) # {}
            /\ sm' = Connect(Disconnect(sm))
    /\ StreamUnchanged

\* The heartbeat timer fires: too long since the last heartbeat is a
\* connection failure, else the monitor starts again.
HeartbeatFire(timeout) ==
    /\ sm.heartbeatTimer
    /\ sm' = IF timeout THEN handleConnectionFailure(sm) ELSE sm
    /\ StreamUnchanged

\* initiateConnection: fetchStreamToken returned.  With a token the refresh
\* is scheduled and createConnection makes its context and records the
\* cancel function.
ConnToken(c, ok) ==
    /\ sm.conns[c].pc = "token"
    /\ sm' = IF ok
             THEN [sm EXCEPT !.tokenRefreshTimer = TRUE,
                             !.cancelFunc = c,
                             !.conns[c] = [pc |-> "do", ctx |-> c]]
             ELSE [handleConnectionFailure(sm) EXCEPT !.conns[c].pc = "dead"]
    /\ StreamUnchanged

\* createConnection: client.Do returned.  A cancelled context is an error
\* and a plain return; another error is a connection failure.
ConnDo(c, ok) ==
    /\ sm.conns[c].pc = "do"
    /\ sm' = IF sm.conns[c].ctx \in sm.cancelled
             THEN [sm EXCEPT !.conns[c].pc = "dead"]
             ELSE IF ok
                  THEN [sm EXCEPT !.conns[c].pc = "opened"]
                  ELSE [handleConnectionFailure(sm) EXCEPT !.conns[c].pc = "dead"]
    /\ StreamUnchanged

\* handleOpen: CONNECTED, and the heartbeat monitor starts.
handleOpen(m) ==
    [m EXCEPT !.state = StreamingStateConnected,
              !.consecutiveFailures = 0,
              !.heartbeatTimer = TRUE]

ConnHandleOpen(c) ==
    /\ sm.conns[c].pc = "opened"
    /\ sm' = [handleOpen(sm) EXCEPT !.conns[c].pc = "reading"]
    /\ StreamUnchanged

\* readEvents: the context is done or the read fails.
ConnReadEnd(c) ==
    /\ sm.conns[c].pc = "reading"
    /\ sm' = IF sm.conns[c].ctx \notin sm.cancelled
                /\ sm.state = StreamingStateConnected
             THEN [handleConnectionFailure(sm) EXCEPT !.conns[c].pc = "dead"]
             ELSE [sm EXCEPT !.conns[c].pc = "dead"]
    /\ StreamUnchanged

InitStream == InitPolling

NextStream ==
    \/ SmConnect
    \/ SmRetryConnection
    \/ SmDisconnect
    \/ ReconnectTimerFire
    \/ RetryTimerFire
    \/ \E ok \in BOOLEAN : TokenRefreshFire(ok)
    \/ \E timeout \in BOOLEAN : HeartbeatFire(timeout)
    \/ \E c \in ConnIds, ok \in BOOLEAN : ConnToken(c, ok)
    \/ \E c \in ConnIds, ok \in BOOLEAN : ConnDo(c, ok)
    \/ \E c \in ConnIds : ConnHandleOpen(c)
    \/ \E c \in ConnIds : ConnReadEnd(c)

SpecStream == InitStream /\ [][NextStream]_vars

\* C40: from the return of Disconnect until the next call of Connect or
\* RetryConnection the manager is DISCONNECTED.
C40_StaysDisconnected ==
    sm.quiet => sm.state = StreamingStateDisconnected

(***************************************************************************)
(* Two EventPersistence handles on one storage directory.  Every call      *)
(* holds the flock of the directory from its first access to its return,   *)
(* so a call is one step; each handle has a buffer and a currentFile of    *)
(* its own.  A handle marks the events it persisted itself.                *)
(***************************************************************************)
HandlesUnchanged ==
    /\ UNCHANGED <<buffer, currentFile, opResult, appendLog, persisted>>
    /\ UNCHANGED <<boot, sq, lk, posts, wr, pn, sm>>
    /\ UNCHANGED <<queueVars, cbVars, httpVars, cacheVars, pollVars, trackVars, clientVars>>

BufferedLines == Len(hd.ep["a"].buffer) + Len(hd.ep["b"].buffer)

\* Persist on handle h of an event with a fresh id.
HPersist(h, id) ==
    /\ id \notin DOMAIN hd.owner
    /\ TotalLines(files) + BufferedLines < MaxLines
    /\ LET buf == Append(hd.ep[h].buffer, PersistDefaults(InputEvent(id, "")))
       IN IF Len(buf) >= BufferSize
          THEN /\ files' = flushLocked(files, buf, hd.ep[h].currentFile)
               /\ hd' = [hd EXCEPT !.ep[h].buffer = <<>>,
                                   !.owner = MapPut(@, id, h),
                                   !.flushed = @ \cup {buf[i].id : i \in 1..Len(buf)}]
          ELSE /\ hd' = [hd EXCEPT !.ep[h].buffer = buf,
                                   !.owner = MapPut(@, id, h)]
               /\ UNCHANGED files
    /\ UNCHANGED nowMs
    /\ HandlesUnchanged

\* Flush on handle h.
HFlush(h) ==
    /\ hd.ep[h].buffer # <<>>
    /\ files' = flushLocked(files, hd.ep[h].buffer, hd.ep[h].currentFile)
    /\ hd' = [hd EXCEPT !.ep[h].buffer = <<>>,
                        !.flushed = @ \cup {hd.ep[h].buffer[i].id :
                                               i \in 1..Len(hd.ep[h].buffer)}]
    /\ UNCHANGED nowMs
    /\ HandlesUnchanged

\* MarkSending / MarkSent / MarkFailed on handle h, for one of its own
\* events that is on disk and not yet sent or failed.
HMark(h, id, status) ==
    /\ id \in hd.flushed \ hd.terminal
    /\ hd.owner[id] = h
    /\ TotalLines(files) + BufferedLines < MaxLines
    /\ files' = AppendTo(files, hd.ep[h].currentFile,
                         <<MarshalUpdate(id, status, nowMs)>>)
    /\ hd' = [hd EXCEPT !.terminal =
                 IF status \in {EventStatusSent, EventStatusFailed}
                 THEN @ \cup {id} ELSE @]
    /\ UNCHANGED nowMs
    /\ HandlesUnchanged

\* Cleanup on handle h; the name it generates is later than the names the
\* handles hold.
HCleanup(h) ==
    /\ \A g \in Handles : hd.ep[g].currentFile < generateFileName(nowMs)
    /\ \E order \in Perms(CleanupKeep(files)) :
          LET name == generateFileName(nowMs)
              lines == [i \in 1..Len(order) |-> MarshalEvent(order[i])]
          IN /\ files' = IF order = <<>> THEN EmptyMap
                         ELSE MapPut(EmptyMap, name, lines)
             /\ hd' = [hd EXCEPT !.ep[h].currentFile = name]
    /\ UNCHANGED nowMs
    /\ HandlesUnchanged

\* Time passes.
HTick ==
    /\ nowMs <= MaxMs
    /\ nowMs' = nowMs + 1
    /\ UNCHANGED <<files, hd>>
    /\ HandlesUnchanged

MarkStatuses == {EventStatusSending, EventStatusSent, EventStatusFailed}

\* The second handle was opened a millisecond after the first.
InitHandles ==
    /\ files = EmptyMap
    /\ buffer = <<>>
    /\ nowMs = 2
    /\ currentFile = generateFileName(1)
    /\ opResult = NoResult
    /\ appendLog = <<>>
    /\ persisted = {}
    /\ QueueInit /\ epRunning = FALSE
    /\ BreakerInit(DefaultCircuitBreakerConfig)
    /\ HttpInit(DefaultHTTPClientConfig)
    /\ CacheInit(DefaultCacheConfig)
    /\ PollInit(TestPollingConfig)
    /\ TrackInit(DefaultEventQueueConfig, 0)
    /\ ClientInit(DefaultOptions)
    /\ ExtInit

NextHandles ==
    \/ \E h \in Handles, id \in 1..(MaxEvents + 1) : HPersist(h, id)
    \/ \E h \in Handles : HFlush(h)
    \/ \E h \in Handles, id \in 1..(MaxEvents + 1), status \in MarkStatuses :
          HMark(h, id, status)
    \/ \E h \in Handles : HCleanup(h)
    \/ HTick

SpecHandles == InitHandles /\ [][NextHandles]_vars

\* C37: whatever the handles did, Cleanup included, Recover returns every
\* event that is on disk and was not marked sent or failed, and none that
\* was.
C37_CleanupSafeAcrossHandles ==
    /\ hd.flushed \ hd.terminal \subseteq IdsOf(Recover(files))
    /\ hd.terminal \cap IdsOf(Recover(files)) = {}

====
